---------------------------- MODULE Spec2Model ----------------------------
(***************************************************************************)
(* Model of the documentation structuring core of googledocs-mkdocs-       *)
(* automation: NavigationManager (heading parser, path allocation,         *)
(* template suggestion, navigation emission, navigation validation),       *)
(* TemplateEngine (profile registry, template merging) and the HTML        *)
(* fallback of GoogleDocsService.                                          *)
(*                                                                         *)
(* A Python str is a sequence of characters; a character is a one-element  *)
(* TLA+ string ("U+00E9" stands for the single character e-acute).  A text *)
(* is one flat sequence in which "\n" separates the lines, as in Python.   *)
(* Optional values (None) are sequences of length 0 or 1.                  *)
(***************************************************************************)
EXTENDS Naturals, Integers, Sequences, FiniteSets, TLC

VARIABLES doc_content, structure, navigation_yaml, validation

\* NavigationManager call flow
nav_vars == <<doc_content, structure, navigation_yaml, validation>>

\* TemplateEngine: the built-in profiles, the custom registry, the last call
\* made on the engine and what it gave back; registered is the history the
\* claims speak of (the successful registrations, in the order they were made)
VARIABLES templates, custom_templates, registered, call, result

engine_vars == <<templates, custom_templates, registered, call, result>>

\* One call of GoogleDocsService.get_document_content: what the two fetches
\* gave (structured_content is extract_text_content's text, exported_html is
\* _get_html_export's, None when it failed), the sections found in the
\* export (additional_sections), where the call is (pc), the local
\* html_content of _extract_content_from_html (working_html) and the number
\* of its statements completed (step), the statement that raised (failed_at,
\* 0 when none did) and the dict returned (response).
VARIABLES structured_content, exported_html, additional_sections, pc,
          working_html, step, failed_at, response

docs_vars == <<structured_content, exported_html, additional_sections, pc,
               working_html, step, failed_at, response>>

\* GitHubService and its callers: the remote repository (repo), the calls the
\* current service call made on it, in order (api_calls), the service call or
\* pipeline run in progress (run) and the contents of mkdocs.yml seen so far:
\* the initial one, then the one after each update_mkdocs_nav call that
\* returned (config_history)
VARIABLES repo, api_calls, run, config_history

publish_vars == <<repo, api_calls, run, config_history>>

\* Callers that use one NavigationManager and one TemplateEngine at the same
\* time: per caller the invocation in progress and its position
VARIABLES callers

service_vars == <<publish_vars, callers>>

vars == <<nav_vars, engine_vars, docs_vars, service_vars>>

-----------------------------------------------------------------------------
(* Characters: the classes Python's str.strip(), re \s, re \w and          *)
(* str.lower() assign to the characters that occur in the inputs.          *)

NL == "\n"

LowerLetters ==
    {"a","b","c","d","e","f","g","h","i","j","k","l","m",
     "n","o","p","q","r","s","t","u","v","w","x","y","z"}

UpperToLower ==
    [c \in {"A","B","C","D","E","F","G","H","I","J","K","L","M",
            "N","O","P","Q","R","S","T","U","V","W","X","Y","Z"} |->
        CASE c = "A" -> "a" [] c = "B" -> "b" [] c = "C" -> "c" [] c = "D" -> "d"
          [] c = "E" -> "e" [] c = "F" -> "f" [] c = "G" -> "g" [] c = "H" -> "h"
          [] c = "I" -> "i" [] c = "J" -> "j" [] c = "K" -> "k" [] c = "L" -> "l"
          [] c = "M" -> "m" [] c = "N" -> "n" [] c = "O" -> "o" [] c = "P" -> "p"
          [] c = "Q" -> "q" [] c = "R" -> "r" [] c = "S" -> "s" [] c = "T" -> "t"
          [] c = "U" -> "u" [] c = "V" -> "v" [] c = "W" -> "w" [] c = "X" -> "x"
          [] c = "Y" -> "y" [] c = "Z" -> "z"]

UpperLetters == DOMAIN UpperToLower

Digits == {"0","1","2","3","4","5","6","7","8","9"}

\* Non-ASCII letters: \w matches them (Python 3 str patterns are Unicode).
UnicodeLetters == {"U+00E9"}

\* str.strip() with no argument and re \s: whitespace.
IsSpace(c) == c \in {" ", "\t", "\n", "\r"}

\* re \w: letters (any script), digits and the underscore.
IsWord(c) ==
    c \in LowerLetters \cup UpperLetters \cup Digits \cup UnicodeLetters \cup {"_"}

\* str.lower() on one character.
LowerChar(c) == IF c \in UpperLetters THEN UpperToLower[c] ELSE c

-----------------------------------------------------------------------------
(* Python str operations.                                                  *)

\* a sequence given as a function on 1..n, written out as a tuple
Tuple(f) == f \o <<>>

\* s.lower()
Lower(s) == Tuple([i \in 1..Len(s) |-> LowerChar(s[i])])

\* s[:n]
Prefix(s, n) == SubSeq(s, 1, IF Len(s) < n THEN Len(s) ELSE n)

\* s.startswith(p)
StartsWith(s, p) == Len(p) <= Len(s) /\ SubSeq(s, 1, Len(p)) = p

\* s.endswith(p)
EndsWith(s, p) ==
    Len(p) <= Len(s) /\ SubSeq(s, Len(s) - Len(p) + 1, Len(s)) = p

\* sub in s
Contains(s, sub) ==
    \E i \in 1..(Len(s) - Len(sub) + 1) : SubSeq(s, i, i + Len(sub) - 1) = sub

\* c in s, for one character
HasChar(s, c) == \E i \in 1..Len(s) : s[i] = c

\* index of the first character of s satisfying none of the stripped set,
\* Len(s)+1 when there is none
FirstNonSpace(s) ==
    IF \E i \in 1..Len(s) : ~IsSpace(s[i])
    THEN CHOOSE i \in 1..Len(s) :
            ~IsSpace(s[i]) /\ \A j \in 1..(i-1) : IsSpace(s[j])
    ELSE Len(s) + 1

LastNonSpace(s) ==
    IF \E i \in 1..Len(s) : ~IsSpace(s[i])
    THEN CHOOSE i \in 1..Len(s) :
            ~IsSpace(s[i]) /\ \A j \in (i+1)..Len(s) : IsSpace(s[j])
    ELSE 0

\* s.strip()
Strip(s) == SubSeq(s, FirstNonSpace(s), LastNonSpace(s))

\* s.strip('-')
StripHyphens(s) ==
    IF \E i \in 1..Len(s) : s[i] # "-"
    THEN LET a == CHOOSE i \in 1..Len(s) :
                     s[i] # "-" /\ \A j \in 1..(i-1) : s[j] = "-"
             b == CHOOSE i \in 1..Len(s) :
                     s[i] # "-" /\ \A j \in (i+1)..Len(s) : s[j] = "-"
         IN  SubSeq(s, a, b)
    ELSE <<>>

\* s.split(c)[0], for one character c: the text before the first c
SplitFirst(s, c) ==
    IF HasChar(s, c)
    THEN SubSeq(s, 1, (CHOOSE i \in 1..Len(s) :
                          s[i] = c /\ \A j \in 1..(i-1) : s[j] # c) - 1)
    ELSE s

\* s.split(c), for one character c: the pieces between the occurrences of
\* c, always at least one piece
Split(s, c) ==
    LET IsSep(i) == s[i] = c
        seps == SelectSeq([i \in 1..Len(s) |-> i], IsSep)
        from(k) == IF k = 1 THEN 1 ELSE seps[k - 1] + 1
        to(k) == IF k = Len(seps) + 1 THEN Len(s) ELSE seps[k] - 1
    IN  Tuple([k \in 1..(Len(seps) + 1) |-> SubSeq(s, from(k), to(k))])

\* c.join(pieces), for one character c
RECURSIVE Join(_, _)
Join(pieces, c) ==
    IF Len(pieces) = 0 THEN <<>>
    ELSE IF Len(pieces) = 1 THEN pieces[1]
    ELSE pieces[1] \o <<c>> \o Join(Tail(pieces), c)

\* n copies of the character c
Rep(c, n) == [i \in 1..n |-> c]


\* a Python str literal of ASCII characters, written out
NavHeader == <<"n","a","v",":">>
MdExt == <<".","m","d">>
SectionSlug == <<"s","e","c","t","i","o","n">>

-----------------------------------------------------------------------------
(* Program constants.                                                      *)

TitleMaxLen == 100
FileTitleMaxLen == 50
ParentPrefixLen == 30
MainTitleMaxLen == 50
MetaMaxMarkers == 6

-----------------------------------------------------------------------------
(* NavigationManager._parse_content                                        *)

\* number of '#' characters the line begins with
HashRun(s) ==
    IF \E i \in 1..Len(s) : s[i] # "#"
    THEN (CHOOSE i \in 1..Len(s) :
             s[i] # "#" /\ \A j \in 1..(i-1) : s[j] = "#") - 1
    ELSE Len(s)

\* number of whitespace characters of s that follow position p
SpaceRun(s, p) ==
    IF \E i \in (p+1)..Len(s) : ~IsSpace(s[i])
    THEN (CHOOSE i \in (p+1)..Len(s) :
             ~IsSpace(s[i]) /\ \A j \in (p+1)..(i-1) : IsSpace(s[j])) - p - 1
    ELSE Len(s) - p

\* re.match(r'^(#+)\s+(.+)$', line) for a line without "\n": (#+) takes the
\* whole run of markers, \s+ the whole run of whitespace after it and (.+)
\* the rest; when nothing is left, \s+ gives its last character back to (.+).
heading_match(line) ==
    LET k == HashRun(line)
        w == SpaceRun(line, k)
        rest == SubSeq(line, k + w + 1, Len(line))
    IN  [matched |-> k >= 1 /\ w >= 1 /\ (Len(rest) >= 1 \/ w >= 2),
         hashes  |-> k,
         text    |-> IF Len(rest) >= 1 THEN rest
                     ELSE SubSeq(line, k + w, k + w)]

\* the title clean-up, without its final truncation
title_cleanup_no_truncate(title) ==
    IF Len(title) > TitleMaxLen
    THEN IF HasChar(title, ".") THEN Strip(SplitFirst(title, "."))
         ELSE IF HasChar(title, "!") THEN Strip(SplitFirst(title, "!"))
         ELSE IF HasChar(title, "?") THEN Strip(SplitFirst(title, "?"))
         ELSE IF HasChar(title, NL) THEN Strip(SplitFirst(title, NL))
         ELSE title
    ELSE title

\* "Clean up title": a title longer than 100 characters is cut at the first
\* break point present, in the order '.', '!', '?', newline, and then
\* truncated to 100 characters if it is still longer.
title_cleanup(title) ==
    IF Len(title) > TitleMaxLen
    THEN LET t == IF HasChar(title, ".") THEN Strip(SplitFirst(title, "."))
                  ELSE IF HasChar(title, "!") THEN Strip(SplitFirst(title, "!"))
                  ELSE IF HasChar(title, "?") THEN Strip(SplitFirst(title, "?"))
                  ELSE IF HasChar(title, NL) THEN Strip(SplitFirst(title, NL))
                  ELSE title
         IN  IF Len(t) > TitleMaxLen THEN Strip(Prefix(t, TitleMaxLen)) ELSE t
    ELSE title

\* re.sub(r'[-\s]+', '-', s): every run of hyphens and whitespace becomes
\* one "-" (the first character of the run is replaced, the others dropped)
CollapseRuns(s) ==
    LET InRun(i) == s[i] = "-" \/ IsSpace(s[i])
        Keep(i) == ~InRun(i) \/ i = 1 \/ ~InRun(i - 1)
        kept == SelectSeq([i \in 1..Len(s) |-> i], Keep)
    IN  Tuple([n \in 1..Len(kept) |-> IF InRun(kept[n]) THEN "-" ELSE s[kept[n]]])

\* re.sub(r'[^\w\s-]', '', s)
KeepSlugChar(c) == IsWord(c) \/ IsSpace(c) \/ c = "-"

\* NavigationManager._clean_filename
clean_filename(title) ==
    LET clean == Lower(StripHyphens(
                     CollapseRuns(SelectSeq(title, KeepSlugChar))))
    IN  IF clean = <<>> THEN SectionSlug ELSE clean

\* _generate_file_path with the parent directory taken from the whole title
generate_file_path_whole_parent(title, level, template) ==
    LET t0 == Strip(title)
        t1 == IF HasChar(t0, NL) THEN SplitFirst(t0, NL) ELSE t0
        clean_title == IF Len(t1) > FileTitleMaxLen
                       THEN Strip(Prefix(t1, FileTitleMaxLen)) ELSE t1
        f == clean_filename(clean_title)
        filename == IF EndsWith(f, MdExt) THEN f ELSE f \o MdExt
    IN  IF level = 1 THEN filename
        ELSE clean_filename(SplitFirst(title, NL)) \o <<"/">> \o filename

\* NavigationManager._generate_file_path
generate_file_path(title, level, template) ==
    LET t0 == Strip(title)
        t1 == IF HasChar(t0, NL) THEN SplitFirst(t0, NL) ELSE t0
        clean_title == IF Len(t1) > FileTitleMaxLen
                       THEN Strip(Prefix(t1, FileTitleMaxLen)) ELSE t1
        f == clean_filename(clean_title)
        filename == IF EndsWith(f, MdExt) THEN f ELSE f \o MdExt
        clean_parent == clean_filename(Prefix(SplitFirst(title, NL), ParentPrefixLen))
    IN  IF level = 1 THEN filename
        ELSE clean_parent \o <<"/">> \o filename

\* NavigationSection(title, level, content="", file_path, children=[], metadata={})
new_section(title, level) ==
    [title     |-> title,
     level     |-> level,
     content   |-> <<>>,
     file_path |-> generate_file_path(title, level, "standard_docs"),
     children  |-> <<>>,
     metadata  |-> <<>>]

\* saving a section that drops it when its path is already taken
flush_unique(sections, current_section, current_content) ==
    IF Len(current_section) = 0
       \/ \E k \in 1..Len(sections) :
             sections[k].file_path = current_section[1].file_path
    THEN sections
    ELSE Append(sections,
                [current_section[1] EXCEPT
                    !.content = Strip(Join(current_content, NL))])

\* "Save previous section if exists" / "Add the last section"
flush(sections, current_section, current_content) ==
    IF Len(current_section) = 0 THEN sections
    ELSE Append(sections,
                [current_section[1] EXCEPT
                    !.content = Strip(Join(current_content, NL))])

\* the loop over the lines: i is the next line, current_section is None (<<>>)
\* or the open section, current_content its buffered lines
RECURSIVE parse_lines(_, _, _, _, _)
parse_lines(lines, i, sections, current_section, current_content) ==
    IF i > Len(lines)
    THEN flush(sections, current_section, current_content)
    ELSE LET line == Strip(lines[i])
         IN  IF line = <<>>
             THEN parse_lines(lines, i + 1, sections, current_section,
                              current_content)
             ELSE LET m == heading_match(line)
                  IN  IF m.matched
                      THEN parse_lines(
                               lines, i + 1,
                               flush(sections, current_section, current_content),
                               <<new_section(title_cleanup(Strip(m.text)),
                                             m.hashes)>>,
                               <<>>)
                      ELSE parse_lines(
                               lines, i + 1, sections, current_section,
                               IF Len(current_section) > 0
                               THEN Append(current_content, line)
                               ELSE current_content)

\* the parser started one line too late
parse_content_skip_first(content) ==
    parse_lines(Split(content, NL), 2, <<>>, <<>>, <<>>)

parse_content(content) ==
    parse_lines(Split(content, NL), 1, <<>>, <<>>, <<>>)


-----------------------------------------------------------------------------
(* NavigationManager: template suggestion, metadata, analysis.             *)

TechnicalWords ==
    {<<"a","p","i">>,
     <<"r","e","f","e","r","e","n","c","e">>,
     <<"t","e","c","h","n","i","c","a","l">>,
     <<"c","o","d","e">>}

ProjectWords ==
    {<<"t","e","a","m">>,
     <<"p","r","o","c","e","s","s">>,
     <<"p","r","o","j","e","c","t">>,
     <<"g","o","a","l","s">>}

\* [s.title.lower() for s in sections], joined by " "
joined_titles(sections) ==
    Join([k \in 1..Len(sections) |-> Lower(sections[k].title)], " ")

\* the classifier with its two rules in the other order
suggest_template_project_first(sections) ==
    IF \E word \in ProjectWords : Contains(joined_titles(sections), word)
    THEN "project_docs"
    ELSE IF \E word \in TechnicalWords : Contains(joined_titles(sections), word)
    THEN "technical_docs"
    ELSE "standard_docs"

\* NavigationManager._suggest_template
suggest_template(sections) ==
    IF \E word \in TechnicalWords : Contains(joined_titles(sections), word)
    THEN "technical_docs"
    ELSE IF \E word \in ProjectWords : Contains(joined_titles(sections), word)
    THEN "project_docs"
    ELSE "standard_docs"

Min(a, b) == IF a < b THEN a ELSE b

Max(a, b) == IF a < b THEN b ELSE a

\* re.match(r'^(#{1,6})\s*(.+)$', line): the number of markers group 1 takes,
\* 0 when there is no match.  Group 1 is greedy up to 6 markers but leaves at
\* least one character of the line to (.+).
meta_heading_depth(line) ==
    Max(0, Min(Min(HashRun(line), MetaMaxMarkers), Len(line) - 1))

RECURSIVE meta_scan(_, _, _, _)
meta_scan(lines, i, total, depth) ==
    IF i > Len(lines)
    THEN [total_sections |-> total,
          max_depth |-> depth,
          estimated_pages |-> Max(1, total \div 3)]
    ELSE LET d == meta_heading_depth(Strip(lines[i]))
         IN  IF d >= 1
             THEN meta_scan(lines, i + 1, total + 1, Max(depth, d))
             ELSE meta_scan(lines, i + 1, total, depth)

\* NavigationManager._extract_metadata
extract_metadata(content) == meta_scan(Split(content, NL), 1, 0, 0)

\* NavigationManager.analyze_document_structure: the fields of the result
\* that the navigation flow and its callers read
analyze_document_structure(content) ==
    LET sections == parse_content(content)
    IN  [sections |-> sections,
         suggested_template |-> suggest_template(sections),
         metadata |-> extract_metadata(content)]

-----------------------------------------------------------------------------
(* NavigationManager.generate_mkdocs_navigation                            *)

NarrativeWords ==
    {<<"h","o","w">>,
     <<"w","h","a","t">>,
     <<"w","h","e","n">>,
     <<"w","h","e","r","e">>,
     <<"w","h","y">>,
     <<"g","u","i","d","e">>,
     <<"f","l","o","w">>,
     <<"t","r","a","c","k","i","n","g">>,
     <<"c","o","m","p","e","n","s","a","t","i","o","n">>}

\* the 'clean title' of a level-1 section in _identify_main_sections
main_title(title) ==
    LET t0 == Strip(title)
        t1 == IF HasChar(t0, NL) THEN SplitFirst(t0, NL) ELSE t0
    IN  IF Len(t1) > TitleMaxLen
        THEN IF HasChar(t1, ".") THEN Strip(SplitFirst(t1, "."))
             ELSE IF HasChar(t1, "!") THEN Strip(SplitFirst(t1, "!"))
             ELSE IF HasChar(t1, "?") THEN Strip(SplitFirst(t1, "?"))
             ELSE IF HasChar(t1, ":") THEN Strip(SplitFirst(t1, ":"))
             ELSE IF HasChar(t1, ";") THEN Strip(SplitFirst(t1, ";"))
             ELSE t1
        ELSE t1

\* the section _identify_main_sections builds for a page
main_section(clean_title, section) ==
    [title     |-> clean_title,
     level     |-> 1,
     content   |-> section.content,
     file_path |-> generate_file_path(clean_title, 1, "standard_docs"),
     children  |-> <<>>,
     metadata  |-> <<>>]

\* the test with the length condition left out
looks_like_main_header_any_length(section) ==
    ~ \E word \in NarrativeWords : Contains(Lower(Strip(section.title)), word)

\* "Check if this looks like a main page header"
looks_like_main_header(section) ==
    /\ Len(Strip(section.title)) < MainTitleMaxLen
    /\ ~ \E word \in NarrativeWords : Contains(Lower(Strip(section.title)), word)

\* NavigationManager._identify_main_sections
identify_main_sections(sections) ==
    LET IsTop(s) == s.level = 1
        tops == SelectSeq(sections, IsTop)
        picked == SelectSeq(sections, looks_like_main_header)
    IN  IF Len(tops) > 0
        THEN [k \in 1..Len(tops) |-> main_section(main_title(tops[k].title), tops[k])]
        ELSE [k \in 1..Len(picked) |->
                 LET t == Strip(picked[k].title)
                 IN  main_section(IF HasChar(t, NL) THEN SplitFirst(t, NL) ELSE t,
                                  picked[k])]

\* the entry line without its indentation
nav_line_unindented(section) ==
    <<"-", " ">> \o section.title \o <<":", " ">> \o section.file_path

\* f"  - {section.title}: {section.file_path}"
nav_line(section) ==
    <<" ", " ", "-", " ">> \o section.title \o <<":", " ">> \o section.file_path

\* the emission with every section treated as a page
generate_mkdocs_navigation_all_levels(struct, template) ==
    Join(<<NavHeader>> \o
         [k \in 1..Len(struct.sections) |-> nav_line(struct.sections[k])], NL)

\* NavigationManager.generate_mkdocs_navigation
generate_mkdocs_navigation(struct, template) ==
    LET IsTop(s) == s.level = 1
        tops == SelectSeq(struct.sections, IsTop)
        main_sections == IF Len(tops) = 0
                         THEN identify_main_sections(struct.sections)
                         ELSE tops
    IN  Join(<<NavHeader>> \o
             [k \in 1..Len(main_sections) |-> nav_line(main_sections[k])], NL)

-----------------------------------------------------------------------------
(* NavigationManager.validate_navigation                                   *)

HeaderError == "Navigation must start with 'nav:'"
MdSuggestion == "Consider using .md extension for all files"

\* f"Line {i+1}: Inconsistent indentation" for the line at Python index i,
\* which is position i+1 of the 1-based sequence of lines
IndentWarning(pos) == [kind |-> "Inconsistent indentation", line |-> pos]

DuplicateWarning == [kind |-> "Duplicate navigation entries detected", line |-> 0]

\* the validator returning at the first failed rule
validate_navigation_short_circuit(nav) ==
    LET lines == Split(nav, NL)
        rest == [p \in 1..Len(lines) |-> p]
        BadIndent(p) == /\ p >= 2 /\ Strip(lines[p]) # <<>>
                        /\ ~StartsWith(lines[p], <<" ", " ">>)
        BadExt(p) == /\ p >= 2 /\ Contains(lines[p], MdExt)
                     /\ ~EndsWith(Strip(lines[p]), MdExt)
        NonBlank(p) == p >= 2 /\ Strip(lines[p]) # <<>>
        indent == SelectSeq(rest, BadIndent)
        nonblank == SelectSeq(rest, NonBlank)
        entries == {Strip(lines[nonblank[k]]) : k \in 1..Len(nonblank)}
        header_ok == StartsWith(Strip(lines[1]), NavHeader)
    IN  IF ~header_ok
        THEN [is_valid |-> FALSE, errors |-> <<HeaderError>>,
              warnings |-> <<>>, suggestions |-> <<>>]
        ELSE [is_valid |-> TRUE,
              errors   |-> <<>>,
              warnings |-> [k \in 1..Len(indent) |-> IndentWarning(indent[k])] \o
                           (IF Len(nonblank) # Cardinality(entries)
                            THEN <<DuplicateWarning>> ELSE <<>>),
              suggestions |-> [k \in 1..Len(SelectSeq(rest, BadExt)) |->
                                  MdSuggestion]]

\* the validator testing the extension on the line as it is, not trimmed
validate_navigation_untrimmed_ext(nav) ==
    LET lines == Split(nav, NL)
        rest == [p \in 1..Len(lines) |-> p]
        BadIndent(p) == /\ p >= 2 /\ Strip(lines[p]) # <<>>
                        /\ ~StartsWith(lines[p], <<" ", " ">>)
        BadExt(p) == /\ p >= 2 /\ Contains(lines[p], MdExt)
                     /\ ~EndsWith(lines[p], MdExt)
        NonBlank(p) == p >= 2 /\ Strip(lines[p]) # <<>>
        indent == SelectSeq(rest, BadIndent)
        nonblank == SelectSeq(rest, NonBlank)
        entries == {Strip(lines[nonblank[k]]) : k \in 1..Len(nonblank)}
        header_ok == StartsWith(Strip(lines[1]), NavHeader)
    IN  [is_valid |-> header_ok,
         errors   |-> IF header_ok THEN <<>> ELSE <<HeaderError>>,
         warnings |-> [k \in 1..Len(indent) |-> IndentWarning(indent[k])] \o
                      (IF Len(nonblank) # Cardinality(entries)
                       THEN <<DuplicateWarning>> ELSE <<>>),
         suggestions |-> [k \in 1..Len(SelectSeq(rest, BadExt)) |->
                             MdSuggestion]]

\* NavigationManager.validate_navigation.  lines[1:] are the positions
\* p >= 2 of the 1-based sequence of lines.  str.split never returns an
\* empty list, so lines[0] exists and the except branch is not taken.
validate_navigation(nav) ==
    LET lines == Split(nav, NL)
        rest == [p \in 1..Len(lines) |-> p]
        BadIndent(p) == /\ p >= 2 /\ Strip(lines[p]) # <<>>
                        /\ ~StartsWith(lines[p], <<" ", " ">>)
        BadExt(p) == /\ p >= 2 /\ Contains(lines[p], MdExt)
                     /\ ~EndsWith(Strip(lines[p]), MdExt)
        NonBlank(p) == p >= 2 /\ Strip(lines[p]) # <<>>
        indent == SelectSeq(rest, BadIndent)
        nonblank == SelectSeq(rest, NonBlank)
        entries == {Strip(lines[nonblank[k]]) : k \in 1..Len(nonblank)}
        header_ok == StartsWith(Strip(lines[1]), NavHeader)
    IN  [is_valid |-> header_ok,
         errors   |-> IF header_ok THEN <<>> ELSE <<HeaderError>>,
         warnings |-> [k \in 1..Len(indent) |-> IndentWarning(indent[k])] \o
                      (IF Len(nonblank) # Cardinality(entries)
                       THEN <<DuplicateWarning>> ELSE <<>>),
         suggestions |-> [k \in 1..Len(SelectSeq(rest, BadExt)) |->
                             MdSuggestion]]

-----------------------------------------------------------------------------
(* TemplateEngine: the profile registry.  A Python dict is a function on   *)
(* its keys (a record); `key in d` is key \in DOMAIN d.                     *)

\* a Python list, and a value of another type where a list is expected
PyList(items) == [is_list |-> TRUE, items |-> items]

NotAList == [is_list |-> FALSE, items |-> <<>>]

\* Python None where a dict is expected: `key in None` raises TypeError
PyNone == [NoneType |-> TRUE]

IsNone(v) == DOMAIN v = {"NoneType"}

\* the dict d with d[k] = v
Put(d, k, v) == [x \in (DOMAIN d) \cup {k} |-> IF x = k THEN v ELSE d[x]]

\* the dict d without the key k
Without(d, k) == [x \in (DOMAIN d) \ {k} |-> d[x]]

EmptyDict == [x \in {} |-> {}]

\* TemplateEngine._load_default_templates
load_default_templates ==
    [
      standard_docs |->
        [ name |-> <<"S","t","a","n","d","a","r","d"," ","D","o","c","u","m","e","n","t","a","t","i","o","n">>,
          description |->
            <<"G","e","n","e","r","a","l"," ","p","u","r","p","o","s","e"," ","d","o","c","u","m","e","n","t","a","t","i","o","n"," ","t","e","m","p","l","a","t","e">>,
          structure |->
          [ frontmatter |-> TRUE,
            toc |-> TRUE,
            breadcrumbs |-> TRUE,
            edit_uri |-> TRUE ],
          sections |->
            PyList(<<
              [level |-> 1, title |-> "Home", required |-> TRUE],
              [level |-> 1, title |-> "About", required |-> FALSE],
              [level |-> 1, title |-> "Team", required |-> FALSE],
              [level |-> 1, title |-> "Operations", required |-> FALSE],
              [level |-> 1, title |-> "Tools", required |-> FALSE],
              [level |-> 1, title |-> "FAQ", required |-> FALSE] >>),
          formatting |->
          [ heading_style |-> "atx",
            code_blocks |-> TRUE,
            admonitions |-> TRUE,
            tables |-> TRUE ] ],
      technical_docs |->
        [ name |-> <<"T","e","c","h","n","i","c","a","l"," ","D","o","c","u","m","e","n","t","a","t","i","o","n">>,
          description |->
            <<"A","P","I"," ","a","n","d"," ","t","e","c","h","n","i","c","a","l"," ","r","e","f","e","r","e","n","c","e"," ","d","o","c","u","m","e","n","t","a","t","i","o","n">>,
          structure |->
          [ frontmatter |-> TRUE,
            toc |-> TRUE,
            breadcrumbs |-> TRUE,
            edit_uri |-> TRUE,
            search |-> TRUE ],
          sections |->
            PyList(<<
              [level |-> 1, title |-> "Overview", required |-> TRUE],
              [level |-> 1, title |-> "Getting Started", required |-> TRUE],
              [level |-> 1, title |-> "API Reference", required |-> FALSE],
              [level |-> 1, title |-> "Examples", required |-> FALSE],
              [level |-> 1, title |-> "Configuration", required |-> FALSE],
              [level |-> 1, title |-> "Troubleshooting", required |-> FALSE] >>),
          formatting |->
          [ heading_style |-> "atx",
            code_blocks |-> TRUE,
            admonitions |-> TRUE,
            tables |-> TRUE,
            syntax_highlighting |-> TRUE ] ],
      project_docs |->
        [ name |-> <<"P","r","o","j","e","c","t"," ","D","o","c","u","m","e","n","t","a","t","i","o","n">>,
          description |->
            <<"P","r","o","j","e","c","t"," ","m","a","n","a","g","e","m","e","n","t"," ","a","n","d"," ","p","r","o","c","e","s","s"," ","d","o","c","u","m","e","n","t","a","t","i","o","n">>,
          structure |->
          [ frontmatter |-> TRUE,
            toc |-> TRUE,
            breadcrumbs |-> TRUE,
            edit_uri |-> FALSE ],
          sections |->
            PyList(<<
              [level |-> 1, title |-> "Home", required |-> TRUE],
              [level |-> 1, title |-> "About", required |-> FALSE],
              [level |-> 1, title |-> "Goals", required |-> FALSE],
              [level |-> 1, title |-> "Processes", required |-> FALSE],
              [level |-> 1, title |-> "Team", required |-> FALSE],
              [level |-> 1, title |-> "Progress", required |-> FALSE] >>),
          formatting |->
          [ heading_style |-> "atx",
            code_blocks |-> FALSE,
            admonitions |-> TRUE,
            tables |-> TRUE ] ],
      minimal |->
        [ name |-> <<"M","i","n","i","m","a","l"," ","D","o","c","u","m","e","n","t","a","t","i","o","n">>,
          description |->
            <<"S","i","m","p","l","e",","," ","m","i","n","i","m","a","l"," ","d","o","c","u","m","e","n","t","a","t","i","o","n"," ","t","e","m","p","l","a","t","e">>,
          structure |->
          [ frontmatter |-> FALSE,
            toc |-> FALSE,
            breadcrumbs |-> FALSE,
            edit_uri |-> FALSE ],
          sections |->
            PyList(<<
              [level |-> 1, title |-> "Home", required |-> TRUE] >>),
          formatting |->
          [ heading_style |-> "atx",
            code_blocks |-> TRUE,
            admonitions |-> FALSE,
            tables |-> TRUE ] ] ]

\* a lookup that prefers the built-in profiles to the custom ones
get_template_builtin_first(tpls, custom, template_name) ==
    IF template_name \in DOMAIN tpls THEN tpls[template_name]
    ELSE IF template_name \in DOMAIN custom THEN custom[template_name]
    ELSE tpls["standard_docs"]

\* a lookup that gives a custom profile whenever one is registered,
\* whatever its name
get_template_any_custom(tpls, custom, template_name) ==
    IF DOMAIN custom # {} THEN custom[CHOOSE n \in DOMAIN custom : TRUE]
    ELSE IF template_name \in DOMAIN tpls THEN tpls[template_name]
    ELSE tpls["standard_docs"]

\* TemplateEngine.get_template
get_template(tpls, custom, template_name) ==
    IF template_name \in DOMAIN custom THEN custom[template_name]
    ELSE IF template_name \in DOMAIN tpls THEN tpls[template_name]
    ELSE tpls["standard_docs"]

required_keys == <<"name", "description", "structure", "sections", "formatting">>

structure_keys == <<"frontmatter", "toc", "breadcrumbs", "edit_uri">>

formatting_keys == <<"heading_style", "code_blocks", "admonitions", "tables">>

\* some key of keys is not in the dict d
MissingKey(keys, d) == \E i \in 1..Len(keys) : keys[i] \notin DOMAIN d

\* TemplateEngine._validate_template: "True", "False", or "TypeError" when
\* `key not in template[...]` meets a value that is no container
validate_template(template) ==
    IF MissingKey(required_keys, template) THEN "False"
    ELSE IF IsNone(template.structure) THEN "TypeError"
    ELSE IF MissingKey(structure_keys, template.structure) THEN "False"
    ELSE IF ~template.sections.is_list THEN "False"
    ELSE IF IsNone(template.formatting) THEN "TypeError"
    ELSE IF MissingKey(formatting_keys, template.formatting) THEN "False"
    ELSE "True"

\* what a call gives back: a value, or an exception propagated to the caller
Returned(v) == [raised |-> FALSE, value |-> <<v>>]

Raised == [raised |-> TRUE, value |-> <<>>]

\* a registration that stores the profile whatever the validation says
create_custom_template_unchecked(custom, name, template_data) ==
    [custom_templates |-> Put(custom, name, template_data),
     outcome |-> Returned(validate_template(template_data) = "True")]

\* a registration that raises when the validation says no
create_custom_template_raising(custom, name, template_data) ==
    IF validate_template(template_data) = "True"
    THEN [custom_templates |-> Put(custom, name, template_data),
          outcome |-> Returned(TRUE)]
    ELSE [custom_templates |-> custom, outcome |-> Raised]

\* TemplateEngine.create_custom_template: the registry after the call and
\* what the caller gets
create_custom_template(custom, name, template_data) ==
    LET valid == validate_template(template_data)
    IN  IF valid = "True"
        THEN [custom_templates |-> Put(custom, name, template_data),
              outcome |-> Returned(TRUE)]
        ELSE IF valid = "False"
        THEN [custom_templates |-> custom, outcome |-> Returned(FALSE)]
        ELSE [custom_templates |-> custom, outcome |-> Raised]

-----------------------------------------------------------------------------
(* TemplateEngine.apply_template                                           *)

HeadingMaxMarkers == 6

\* re.match(r'^(#{1,6})\s*(.+)$', s) for a stripped line s without "\n":
\* the markers take up to six '#', \s* the whitespace after them and (.+) the
\* rest; when nothing is left, the markers give their last '#' back to (.+).
format_heading_match(s) ==
    LET g == Min(HashRun(s), HeadingMaxMarkers)
        w == SpaceRun(s, g)
        rest == SubSeq(s, g + w + 1, Len(s))
    IN  IF g >= 1 /\ Len(rest) >= 1
        THEN [matched |-> TRUE, level |-> g, title |-> Strip(rest)]
        ELSE IF g >= 2 /\ w = 0
        THEN [matched |-> TRUE, level |-> g - 1, title |-> <<"#">>]
        ELSE [matched |-> FALSE, level |-> 0, title |-> <<>>]

\* TemplateEngine._format_heading
format_heading(line, template) ==
    LET m == format_heading_match(Strip(line))
    IN  IF ~m.matched THEN line
        ELSE IF template.formatting.heading_style = "atx"
        THEN Rep("#", m.level) \o <<" ">> \o m.title
        ELSE m.title \o <<NL>>
             \o Rep(IF m.level = 1 THEN "=" ELSE "-", Len(m.title))

\* TemplateEngine._format_content
format_content(content, template) ==
    LET lines == Split(content, NL)
    IN  Join([i \in 1..Len(lines) |->
                 IF StartsWith(Strip(lines[i]), <<"#">>)
                 THEN format_heading(lines[i], template)
                 ELSE lines[i]], NL)

\* a metadata value: a str or a list of str
MetaStr(text) == [is_list |-> FALSE, text |-> text, items |-> <<>>]

MetaList(items) == [is_list |-> TRUE, text |-> <<>>, items |-> items]

\* Python truthiness of a metadata value: '' and [] are false
Truthy(v) == IF v.is_list THEN Len(v.items) > 0 ELSE Len(v.text) > 0

\* metadata.get(key, default)
MetaGet(metadata, key, default) ==
    IF key \in DOMAIN metadata THEN metadata[key] ELSE default

DefaultTitle == <<"D","o","c","u","m","e","n","t","a","t","i","o","n">>

\* the keys of the frontmatter dict, in insertion order, and their text
frontmatter_keys ==
    <<"title", "description", "template", "created", "updated", "author",
      "tags">>

KeyText ==
    [title |-> <<"t","i","t","l","e">>,
     description |-> <<"d","e","s","c","r","i","p","t","i","o","n">>,
     template |-> <<"t","e","m","p","l","a","t","e">>,
     created |-> <<"c","r","e","a","t","e","d">>,
     updated |-> <<"u","p","d","a","t","e","d">>,
     author |-> <<"a","u","t","h","o","r">>,
     tags |-> <<"t","a","g","s">>]

\* the frontmatter dict of _generate_frontmatter before its empty values are
\* removed, as the ordered sequence of its items
frontmatter_dict(template, metadata) ==
    LET value(key) ==
            CASE key = "title" -> MetaGet(metadata, key, MetaStr(DefaultTitle))
              [] key = "template" -> MetaStr(template.name)
              [] key = "tags" -> MetaGet(metadata, key, MetaList(<<>>))
              [] OTHER -> MetaGet(metadata, key, MetaStr(<<>>))
    IN  [i \in 1..Len(frontmatter_keys) |->
            [key |-> frontmatter_keys[i], value |-> value(frontmatter_keys[i])]]

\* the frontmatter dict with every item kept, empty or not
frontmatter_items_keep_empty(template, metadata) ==
    frontmatter_dict(template, metadata)

\* {k: v for k, v in frontmatter.items() if v}
frontmatter_items(template, metadata) ==
    LET HasValue(item) == Truthy(item.value)
    IN  SelectSeq(frontmatter_dict(template, metadata), HasValue)

\* yaml.dump of a list of plain words, block style: one "- word" line each
RECURSIVE yaml_list(_)
yaml_list(items) ==
    IF Len(items) = 0 THEN <<>>
    ELSE <<"-", " ">> \o items[1] \o <<NL>> \o yaml_list(Tail(items))

\* yaml.dump(d, default_flow_style=False, sort_keys=False) of a dict, given
\* as its ordered items, whose values are plain words or lists of them
\* (text that YAML writes unquoted): "key: value" lines, a list as "key:"
\* followed by its "- item" lines, the empty list as "key: []" and the
\* empty dict as "{}"
RECURSIVE yaml_dump_items(_)
yaml_dump_items(items) ==
    IF Len(items) = 0 THEN <<>>
    ELSE LET v == items[1].value
             head == KeyText[items[1].key] \o <<":">>
         IN  (IF v.is_list /\ Len(v.items) > 0
              THEN head \o <<NL>> \o yaml_list(v.items)
              ELSE IF v.is_list THEN head \o <<" ", "[", "]", NL>>
              ELSE IF Len(v.text) = 0 THEN head \o <<" ", "'", "'", NL>>
              ELSE head \o <<" ">> \o v.text \o <<NL>>)
             \o yaml_dump_items(Tail(items))

yaml_dump(items) ==
    IF Len(items) = 0 THEN <<"{", "}", NL>> ELSE yaml_dump_items(items)

\* TemplateEngine._generate_frontmatter, for a metadata dict
generate_frontmatter(template, metadata) ==
    yaml_dump(frontmatter_items(template, metadata))

\* re.sub(r'\s+', '-', s): every run of whitespace becomes one "-"
CollapseSpaces(s) ==
    LET Keep(i) == ~IsSpace(s[i]) \/ i = 1 \/ ~IsSpace(s[i - 1])
        kept == SelectSeq([i \in 1..Len(s) |-> i], Keep)
    IN  Tuple([n \in 1..Len(kept) |->
                  IF IsSpace(s[kept[n]]) THEN "-" ELSE s[kept[n]]])

\* TemplateEngine._create_anchor
create_anchor(title) ==
    StripHyphens(CollapseSpaces(SelectSeq(Lower(title), KeepSlugChar)))

\* s.strip('#')
StripHashes(s) ==
    IF \E i \in 1..Len(s) : s[i] # "#"
    THEN LET a == CHOOSE i \in 1..Len(s) :
                     s[i] # "#" /\ \A j \in 1..(i-1) : s[j] = "#"
             b == CHOOSE i \in 1..Len(s) :
                     s[i] # "#" /\ \A j \in (i+1)..Len(s) : s[j] = "#"
         IN  SubSeq(s, a, b)
    ELSE <<>>

TocHeader ==
    <<"#","#"," ","T","a","b","l","e"," ","o","f"," ","C","o","n","t","e","n","t","s">>

\* the entry of one line in the table of contents; "  " * (level - 1) is
\* the empty string when level - 1 is not positive
toc_entry(line) ==
    LET level == HashRun(line)
        title == Strip(StripHashes(line))
        indent == IF level >= 2 THEN Rep(" ", 2 * (level - 1)) ELSE <<>>
    IN  indent \o <<"-", " ", "[">> \o title \o <<"]", "(", "#">>
        \o create_anchor(title) \o <<")">>

\* TemplateEngine._generate_toc
generate_toc(content) ==
    LET lines == Split(content, NL)
        IsHeading(i) == StartsWith(Strip(lines[i]), <<"#">>)
        hs == SelectSeq([i \in 1..Len(lines) |-> i], IsHeading)
    IN  Join(<<TocHeader, <<>>>> \o [n \in 1..Len(hs) |-> toc_entry(lines[hs[n]])],
             NL)

\* TemplateEngine.apply_template; metadata is <<>> when the caller omits it
\* (the default None) and <<d>> for a dict d.  metadata.get on None raises
\* AttributeError, which apply_template logs and raises again.
apply_template(tpls, custom, content, template_name, metadata) ==
    LET template == get_template(tpls, custom, template_name)
        body == format_content(content, template)
        with_frontmatter ==
            IF template.structure.frontmatter
            THEN generate_frontmatter(template, metadata[1])
                 \o <<NL, NL>> \o body
            ELSE body
    IN  IF template.structure.frontmatter /\ Len(metadata) = 0 THEN Raised
        ELSE IF template.structure.toc
        THEN Returned(with_frontmatter \o <<NL, NL>>
                      \o generate_toc(with_frontmatter))
        ELSE Returned(with_frontmatter)

-----------------------------------------------------------------------------
(* GoogleDocsService: the regular expressions of the HTML fallback.  A     *)
(* pattern is a record; MatchAt gives, for a pattern, a text and a         *)
(* position, the end of the match that begins there (0 when there is none) *)
(* and the text of its group.  No pattern of the program matches the empty *)
(* string.                                                                 *)

\* the first position >= from where s holds the character c, 0 if none
FirstAt(s, from, c) ==
    IF \E j \in from..Len(s) : s[j] = c
    THEN CHOOSE j \in from..Len(s) :
            s[j] = c /\ \A h \in from..(j - 1) : s[h] # c
    ELSE 0

\* s holds the text lit at position i; with icase, whatever the case of
\* the letters (lit is given in lower case then)
HoldsAt(s, i, lit, icase) ==
    /\ i >= 1
    /\ i + Len(lit) - 1 <= Len(s)
    /\ LET piece == SubSeq(s, i, i + Len(lit) - 1)
       IN  (IF icase THEN Lower(piece) ELSE piece) = lit

\* the first position >= from where s holds lit, 0 if none
FirstHolds(s, from, lit, icase) ==
    IF \E j \in from..Len(s) : HoldsAt(s, j, lit, icase)
    THEN CHOOSE j \in from..Len(s) :
            /\ HoldsAt(s, j, lit, icase)
            /\ \A h \in from..(j - 1) : ~HoldsAt(s, h, lit, icase)
    ELSE 0

\* [a-zA-Z0-9_-]
IsCssIdent(c) ==
    c \in LowerLetters \cup UpperLetters \cup Digits \cup {"_", "-"}

\* the last position of the run of identifier characters, of whitespace, of
\* '#', that begins at position i (i - 1 when the run is empty)
IdentRunEnd(s, i) ==
    IF \E j \in i..Len(s) : ~IsCssIdent(s[j])
    THEN (CHOOSE j \in i..Len(s) :
             ~IsCssIdent(s[j]) /\ \A h \in i..(j - 1) : IsCssIdent(s[h])) - 1
    ELSE Len(s)

SpaceRunEnd(s, i) == i - 1 + SpaceRun(s, i - 1)

HashRunEnd(s, i) ==
    IF \E j \in i..Len(s) : s[j] # "#"
    THEN (CHOOSE j \in i..Len(s) :
             s[j] # "#" /\ \A h \in i..(j - 1) : s[h] = "#") - 1
    ELSE Len(s)

NoMatch == [end |-> 0, group |-> <<>>]

\* '{[^}]*}' from position b on: the position of the closing brace, 0 when
\* s[b] is no opening brace or no closing brace follows
BraceBlockEnd(s, b) ==
    IF b <= Len(s) /\ s[b] = "{" THEN FirstAt(s, b + 1, "}") ELSE 0

\* r'<name[^>]*>(.*?)</name>' with re.IGNORECASE, and re.DOTALL if dotall;
\* replaced by pre + group + post
TagPair(name, pre, post, dotall) ==
    [kind |-> "pair", name |-> name, pre |-> pre, post |-> post,
     dotall |-> dotall, keep |-> TRUE]

\* <name[^>]*>.*?</name> with DOTALL, replaced by the empty string
Element(name) ==
    [kind |-> "pair", name |-> name, pre |-> <<>>, post |-> <<>>,
     dotall |-> TRUE, keep |-> FALSE]

\* the opening tag ends at the first '>'; the lazy group ends before the
\* first closing tag, and without DOTALL must hold no newline
MatchPair(p, s, i) ==
    LET n == Len(p.name)
        g == FirstAt(s, i + n + 1, ">")
        close == <<"<", "/">> \o p.name \o <<">">>
        c == IF g = 0 THEN 0 ELSE FirstHolds(s, g + 1, close, TRUE)
    IN  IF /\ HoldsAt(s, i, <<"<">> \o p.name, TRUE)
           /\ g > 0
           /\ c > 0
           /\ (p.dotall \/ \A h \in (g + 1)..(c - 1) : s[h] # NL)
        THEN [end |-> c + n + 2, group |-> SubSeq(s, g + 1, c - 1)]
        ELSE NoMatch

\* open + r'[^>]*>' (least == 0) or open + r'[^>]+>' (least == 1), with
\* re.IGNORECASE; replaced by repl
Tag(open, least, repl) ==
    [kind |-> "tag", open |-> open, least |-> least, repl |-> repl]

MatchTag(p, s, i) ==
    LET q == i + Len(p.open) - 1
        g == FirstAt(s, q + 1, ">")
    IN  IF HoldsAt(s, i, p.open, TRUE) /\ g > 0 /\ g - q - 1 >= p.least
        THEN [end |-> g, group |-> <<>>]
        ELSE NoMatch

\* str.replace(lit, repl)
Literal(lit, repl) == [kind |-> "literal", lit |-> lit, repl |-> repl]

MatchLiteral(p, s, i) ==
    IF HoldsAt(s, i, p.lit, FALSE)
    THEN [end |-> i + Len(p.lit) - 1, group |-> <<>>]
    ELSE NoMatch

\* r'\.lst-kix_[^{]*{[^}]*}'
ListStyleRule == [kind |-> "list_style", repl |-> <<>>]

ListStylePrefix == <<".","l","s","t","-","k","i","x","_">>

MatchListStyle(p, s, i) ==
    LET b == FirstAt(s, i + Len(ListStylePrefix), "{")
        e == IF b = 0 THEN 0 ELSE BraceBlockEnd(s, b)
    IN  IF HoldsAt(s, i, ListStylePrefix, FALSE) /\ e > 0
        THEN [end |-> e, group |-> <<>>]
        ELSE NoMatch

\* r'[a-zA-Z0-9_-]+\s*{[^}]*}'
CssRule == [kind |-> "css_rule", repl |-> <<>>]

MatchCssRule(p, s, i) ==
    LET j == IdentRunEnd(s, i)
        e == BraceBlockEnd(s, SpaceRunEnd(s, j + 1) + 1)
    IN  IF j >= i /\ e > 0 THEN [end |-> e, group |-> <<>>] ELSE NoMatch

\* r'[a-zA-Z0-9_-]+\s*>\s*[a-zA-Z0-9_-]+\s*{[^}]*}'
CssChildRule == [kind |-> "css_child_rule", repl |-> <<>>]

MatchCssChildRule(p, s, i) ==
    LET j == IdentRunEnd(s, i)
        gt == SpaceRunEnd(s, j + 1) + 1
        i2 == SpaceRunEnd(s, gt + 1) + 1
        j2 == IdentRunEnd(s, i2)
        e == BraceBlockEnd(s, SpaceRunEnd(s, j2 + 1) + 1)
    IN  IF /\ j >= i
           /\ gt <= Len(s)
           /\ s[gt] = ">"
           /\ j2 >= i2
           /\ e > 0
        THEN [end |-> e, group |-> <<>>]
        ELSE NoMatch

\* r'\n\s*\n', replaced by two newlines: from a newline to the last
\* newline of the whitespace that follows it
BlankLines == [kind |-> "blank_lines", repl |-> <<NL, NL>>]

MatchBlankLines(p, s, i) ==
    LET r == SpaceRunEnd(s, i + 1)
    IN  IF i <= Len(s) /\ s[i] = NL /\ \E e \in (i + 1)..r : s[e] = NL
        THEN [end |-> CHOOSE e \in (i + 1)..r :
                         s[e] = NL /\ \A h \in (e + 1)..r : s[h] # NL,
              group |-> <<>>]
        ELSE NoMatch

\* r' +' replaced by one space (least == 1, c == " "), and r'\n{3,}'
\* replaced by two newlines (least == 3, c == "\n")
CharRun(c, least, repl) ==
    [kind |-> "run", c |-> c, least |-> least, repl |-> repl]

MatchCharRun(p, s, i) ==
    LET e == IF \E j \in i..Len(s) : s[j] # p.c
             THEN (CHOOSE j \in i..Len(s) :
                      s[j] # p.c /\ \A h \in i..(j - 1) : s[h] = p.c) - 1
             ELSE Len(s)
    IN  IF e - i + 1 >= p.least THEN [end |-> e, group |-> <<>>] ELSE NoMatch

\* rf'#+\s*{re.escape(header)}' with re.IGNORECASE, replaced by '# ' + header
HeaderPattern(header) ==
    [kind |-> "header", header |-> header, repl |-> <<"#", " ">> \o header]

MatchHeader(p, s, i) ==
    LET j == HashRunEnd(s, i)
        k == SpaceRunEnd(s, j + 1)
    IN  IF j >= i /\ HoldsAt(s, k + 1, Lower(p.header), TRUE)
        THEN [end |-> k + Len(p.header), group |-> <<>>]
        ELSE NoMatch

\* the match of pattern p that begins at position i of s
MatchAt(p, s, i) ==
    CASE p.kind = "pair" -> MatchPair(p, s, i)
      [] p.kind = "tag" -> MatchTag(p, s, i)
      [] p.kind = "literal" -> MatchLiteral(p, s, i)
      [] p.kind = "list_style" -> MatchListStyle(p, s, i)
      [] p.kind = "css_rule" -> MatchCssRule(p, s, i)
      [] p.kind = "css_child_rule" -> MatchCssChildRule(p, s, i)
      [] p.kind = "blank_lines" -> MatchBlankLines(p, s, i)
      [] p.kind = "run" -> MatchCharRun(p, s, i)
      [] p.kind = "header" -> MatchHeader(p, s, i)

\* what a match is replaced by
Replacement(p, m) ==
    IF p.kind = "pair"
    THEN IF p.keep THEN p.pre \o m.group \o p.post ELSE <<>>
    ELSE p.repl

\* re.sub(p, repl, s) and s.replace(lit, repl): the matches are taken from
\* left to right, each beginning after the end of the one before
RECURSIVE SubFrom(_, _, _)
SubFrom(p, s, i) ==
    IF i > Len(s) THEN <<>>
    ELSE LET m == MatchAt(p, s, i)
         IN  IF m.end > 0
             THEN Replacement(p, m) \o SubFrom(p, s, m.end + 1)
             ELSE <<s[i]>> \o SubFrom(p, s, i + 1)

Sub(p, s) == SubFrom(p, s, 1)

\* re.findall(p, s) for a pattern with one group: the groups of the matches
RECURSIVE FindAllFrom(_, _, _)
FindAllFrom(p, s, i) ==
    IF i > Len(s) THEN <<>>
    ELSE LET m == MatchAt(p, s, i)
         IN  IF m.end > 0
             THEN <<m.group>> \o FindAllFrom(p, s, m.end + 1)
             ELSE FindAllFrom(p, s, i + 1)

FindAll(p, s) == FindAllFrom(p, s, 1)

-----------------------------------------------------------------------------
(* GoogleDocsService._extract_content_from_html: its statements, stage by  *)
(* stage.  "U+2014" and "U+2013" stand for the em and the en dash.          *)

\* html_content.strip()
StripText == [kind |-> "strip"]

\* stage 1: style blocks, list-style rules, comment markers
StripStyles ==
    << Element(<<"s","t","y","l","e">>),
       ListStyleRule,
       Tag(<<"<", "!">>, 0, <<>>) >>

\* stage 2: h1..h6 to '#'..'######' between blank lines
ConvertHeadings ==
    << TagPair(<<"h","1">>, <<"\n","\n","#"," ">>, <<"\n","\n">>, FALSE),
       TagPair(<<"h","2">>, <<"\n","\n","#","#"," ">>, <<"\n","\n">>, FALSE),
       TagPair(<<"h","3">>, <<"\n","\n","#","#","#"," ">>, <<"\n","\n">>, FALSE),
       TagPair(<<"h","4">>, <<"\n","\n","#","#","#","#"," ">>, <<"\n","\n">>, FALSE),
       TagPair(<<"h","5">>, <<"\n","\n","#","#","#","#","#"," ">>, <<"\n","\n">>, FALSE),
       TagPair(<<"h","6">>, <<"\n","\n","#","#","#","#","#","#"," ">>, <<"\n","\n">>, FALSE) >>

\* stage 3: paragraphs, line breaks, lists, bold and italic
ConvertBlocks ==
    << TagPair(<<"p">>, <<>>, <<NL, NL>>, FALSE),
       Tag(<<"<", "b", "r">>, 0, <<NL>>),
       TagPair(<<"u", "l">>, <<>>, <<>>, TRUE),
       TagPair(<<"o", "l">>, <<>>, <<>>, TRUE),
       TagPair(<<"l", "i">>, <<"*", " ">>, <<NL>>, FALSE),
       TagPair(<<"s","t","r","o","n","g">>, <<"*", "*">>, <<"*", "*">>, FALSE),
       TagPair(<<"b">>, <<"*", "*">>, <<"*", "*">>, FALSE),
       TagPair(<<"e", "m">>, <<"*">>, <<"*">>, FALSE),
       TagPair(<<"i">>, <<"*">>, <<"*">>, FALSE) >>

\* stage 4: the remaining tags
StripTags == << Tag(<<"<">>, 1, <<>>) >>

\* stage 5: the entity table, in its order
html_entities ==
    << Literal(<<"&","n","b","s","p",";">>, <<" ">>),
       Literal(<<"&","a","m","p",";">>, <<"&">>),
       Literal(<<"&","l","t",";">>, <<"<">>),
       Literal(<<"&","g","t",";">>, <<">">>),
       Literal(<<"&","q","u","o","t",";">>, <<"\"">>),
       Literal(<<"&","r","s","q","u","o",";">>, <<"'">>),
       Literal(<<"&","l","s","q","u","o",";">>, <<"'">>),
       Literal(<<"&","r","d","q","u","o",";">>, <<"\"">>),
       Literal(<<"&","l","d","q","u","o",";">>, <<"\"">>),
       Literal(<<"&","h","e","l","l","i","p",";">>, <<".",".",".">>),
       Literal(<<"&","m","d","a","s","h",";">>, <<"U+2014">>),
       Literal(<<"&","n","d","a","s","h",";">>, <<"U+2013">>),
       Literal(<<"&","#","3","9",";">>, <<"'">>),
       Literal(<<"&","#","8","2","1","7",";">>, <<"'">>),
       Literal(<<"&","#","8","2","1","6",";">>, <<"'">>),
       Literal(<<"&","#","8","2","2","0",";">>, <<"\"">>),
       Literal(<<"&","#","8","2","2","1",";">>, <<"\"">>),
       Literal(<<"&","#","8","2","3","0",";">>, <<".",".",".">>),
       Literal(<<"&","#","8","2","1","1",";">>, <<"U+2013">>),
       Literal(<<"&","#","8","2","1","2",";">>, <<"U+2014">>) >>

\* stage 6: blank-line runs, repeated spaces, newline runs, trim
NormaliseWhitespace ==
    << BlankLines,
       CharRun(" ", 1, <<" ">>),
       CharRun(NL, 3, <<NL, NL>>),
       StripText >>

\* stage 7: residual CSS rules
RemoveCss == << CssRule, CssChildRule >>

main_headers ==
    << <<"L","a","n","d","i","n","g"," ","p","a","g","e">>,
       <<"S","t","r","u","c","t","u","r","e">>,
       <<"M","i","l","e","s","t","o","n","e"," ","R","e","v","i","e","w">>,
       <<"R","e","v","i","e","w"," ","o","n","b","o","a","r","d","i","n","g"," ","C","i","r","c","l","e">>,
       <<"P","a","y","m","e","n","t"," ","I","n","f","o","r","m","a","t","i","o","n">> >>

\* stage 8: the known main headers forced to level 1
CorrectHeaders ==
    [n \in 1..Len(main_headers) |-> HeaderPattern(main_headers[n])]

Stages ==
    << StripStyles, ConvertHeadings, ConvertBlocks, StripTags, html_entities,
       NormaliseWhitespace, RemoveCss, CorrectHeaders >>

\* the statements of the extractor, in program order
Statements ==
    StripStyles \o ConvertHeadings \o ConvertBlocks \o StripTags
    \o html_entities \o NormaliseWhitespace \o RemoveCss \o CorrectHeaders

\* the number of statements in the stages before stage k
RECURSIVE StatementsBefore(_)
StatementsBefore(k) ==
    IF k = 1 THEN 0 ELSE StatementsBefore(k - 1) + Len(Stages[k - 1])

\* the stage statement number n belongs to
StageOf(n) ==
    CHOOSE k \in 1..Len(Stages) :
        StatementsBefore(k) < n /\ n <= StatementsBefore(k) + Len(Stages[k])

\* the effect of one statement on the text
Execute(statement, text) ==
    IF statement.kind = "strip" THEN Strip(text) ELSE Sub(statement, text)

\* the statements from number a to number b executed on text, in order
\* (the test of the length has statement a evaluated before the next one)
RECURSIVE ExecuteRange(_, _, _)
ExecuteRange(a, b, text) ==
    IF a > b THEN text
    ELSE LET after == Execute(Statements[a], text)
         IN  IF Len(after) >= 0 THEN ExecuteRange(a + 1, b, after) ELSE after

\* GoogleDocsService._extract_content_from_html when no statement fails
extract_content_from_html(html_content) ==
    ExecuteRange(1, Len(Statements), html_content)

\* GoogleDocsService._parse_html_sections: the texts of the h1 elements,
\* then of the h2 elements, ..., tags removed and trimmed, the empty ones
\* left out
RECURSIVE HeadingTextsFrom(_, _)
HeadingTextsFrom(level, html_content) ==
    IF level > Len(ConvertHeadings) THEN <<>>
    ELSE FindAll(ConvertHeadings[level], html_content)
         \o HeadingTextsFrom(level + 1, html_content)

RECURSIVE CleanTexts(_)
CleanTexts(found) ==
    IF Len(found) = 0 THEN <<>>
    ELSE <<Strip(Sub(StripTags[1], found[1]))>> \o CleanTexts(Tail(found))

NonEmptyText(t) == Len(t) > 0

parse_html_sections(html_content) ==
    SelectSeq(CleanTexts(HeadingTextsFrom(1, html_content)), NonEmptyText)

-----------------------------------------------------------------------------
(* GoogleDocsService.get_document_content: the choice between the          *)
(* structured extraction and the HTML export, and the response.  The       *)
(* export is None (<<>>) when _get_html_export fails.                      *)

HtmlLengthFactor == 2

\* an export at least that much longer
html_reveals_as_much(content, html_export) ==
    /\ Len(html_export) = 1
    /\ Len(html_export[1]) > 0
    /\ Len(html_export[1]) >= Len(content) * HtmlLengthFactor

\* `html_content and len(html_content) > len(content) * 2`
html_reveals_more(content, html_export) ==
    /\ Len(html_export) = 1
    /\ Len(html_export[1]) > 0
    /\ Len(html_export[1]) > Len(content) * HtmlLengthFactor

\* additional_sections: [] unless the export is that much longer
additional_sections_of(content, html_export) ==
    IF html_reveals_more(content, html_export)
    THEN parse_html_sections(html_export[1])
    ELSE <<>>

\* `if additional_sections:` whether _extract_content_from_html is called
use_html_export(sections) == Len(sections) > 0

\* the number of occurrences of the character c in text
CountChar(text, c) == Cardinality({i \in 1..Len(text) : text[i] = c})

\* the dict get_document_content returns for the final content, with the
\* stats that are computed from the content and the export
document_response(content, html_export, sections) ==
    [content |-> content,
     html_content |-> html_export,
     additional_sections |-> sections,
     stats |-> [content_length |-> Len(content),
                has_headings |-> CountChar(content, "#") > 0,
                heading_count |-> CountChar(content, "#"),
                html_sections_found |-> Len(sections),
                used_html_export |->
                    /\ Len(html_export) = 1
                    /\ Len(html_export[1]) > Len(content) * HtmlLengthFactor]]

\* the except clause of _extract_content_from_html gives back the original
\* argument
extract_on_failure_original(original, working) == original

\* the except clause of _extract_content_from_html: it returns the local
\* html_content, which the statements completed so far have reassigned
extract_on_failure(original, working) == working

-----------------------------------------------------------------------------
(* Inputs.                                                                 *)

MaxLines == 3
MaxNavLines == 3

\* The lines a document is made of.
LinePool ==
    { <<>>,                                          \* a blank line
      <<"#"," ","A","P","I"," ","G","u","i","d","e">>,
      <<"#","#"," ","T","e","a","m"," ","F","l","o","w">>,
      <<"#","#"," ","t","e","a","m"," ","f","l","o","w","!">>,
      <<"#"," ","m","y","_","t","i","t","l","e"," ","U+00E9">>,
      <<"#","#","#"," ","?","!">>,
      <<"\t","b","o","d","y"," ","2"," ">>,                 \* tab, "body 2", space
      <<"#","#","#","#","#","#","#"," ","D","e","e","p">>,              \* seven markers
      <<"#","N","o","S","p","a","c","e">>,
      \* "## " + 29 * "a" + "!b" and "## " + 29 * "a" + "b!"
      <<"#","#"," ">> \o Rep("a", 29) \o <<"!","b">>,
      <<"#","#"," ">> \o Rep("a", 29) \o <<"b","!">>,
      \* "# ." + 101 * "a"
      <<"#"," ",".">> \o Rep("a", 101),
      \* "## Intro! v1. " + 95 * "a"
      <<"#","#"," ","I","n","t","r","o","!"," ","v","1","."," ">> \o Rep("a", 95),
      \* "## " + 101 * "a" + "?"
      <<"#","#"," ">> \o Rep("a", 101) \o <<"?">> }

\* every text of at most n lines drawn from pool
TextsOf(pool, n) ==
    {Join(ls, NL) : ls \in UNION {[1..m -> pool] : m \in 0..n}}

Documents == TextsOf(LinePool, MaxLines)

\* The lines a navigation text handed to the validator is made of.
NavLinePool ==
    { <<>>,
      <<"n","a","v",":">>,
      <<"n","a","v",":"," ","x">>,
      <<"n","a","v",":","e","x","t","r","a">>,
      <<"n","o","t","-","n","a","v",":">>,
      <<" "," ","-"," ","A",":"," ","a",".","m","d">>,
      <<"-"," ","A",":"," ","a",".","m","d">>,
      <<" "," ","-"," ","A",":"," ","a",".","m","d"," ">>,               \* trailing space
      <<" "," ","-"," ","B",":"," ","b",".","m","d","#","t","o","p">> }

NavTexts == TextsOf(NavLinePool, MaxNavLines)

\* The registry keys callers use: a built-in name (a custom profile of that
\* name shadows the built-in one), a new name and a name never registered.
CustomNames == {"minimal", "team_docs"}

LookupNames == CustomNames \cup {"standard_docs", "unknown"}

\* a well-formed custom profile
custom_profile(name, frontmatter, toc, heading_style) ==
    [name |-> name,
     description |-> <<"c","u","s","t","o","m">>,
     structure |-> [frontmatter |-> frontmatter, toc |-> toc,
                    breadcrumbs |-> FALSE, edit_uri |-> FALSE],
     sections |-> PyList(<<[level |-> 1, title |-> "Home", required |-> TRUE]>>),
     formatting |-> [heading_style |-> heading_style, code_blocks |-> TRUE,
                     admonitions |-> FALSE, tables |-> TRUE]]

Handbook == custom_profile(<<"H","a","n","d","b","o","o","k">>, TRUE, TRUE, "setext")

WellFormedProfiles ==
    { Handbook,
      custom_profile(<<"N","o","t","e","s">>, FALSE, TRUE, "setext"),
      custom_profile(<<>>, TRUE, FALSE, "atx") }      \* empty display name

\* Handbook with one required key taken away, at each of the three places;
\* with sections that is no list; with None for structure or formatting
MalformedProfiles ==
    {Without(Handbook, required_keys[i]) : i \in 1..Len(required_keys)}
    \cup {[Handbook EXCEPT !.structure = Without(@, structure_keys[i])] :
              i \in 1..Len(structure_keys)}
    \cup {[Handbook EXCEPT !.formatting = Without(@, formatting_keys[i])] :
              i \in 1..Len(formatting_keys)}
    \cup {[Handbook EXCEPT !.sections = NotAList]}
    \cup {[Handbook EXCEPT !.structure = PyNone],
          [Handbook EXCEPT !.formatting = PyNone]}

ProfileData == WellFormedProfiles \cup MalformedProfiles

MaxTemplateLines == 2
MaxRegistrations == 2

\* The lines a content handed to apply_template is made of.
TemplateLinePool ==
    { <<>>,
      <<"#"," ","T","i","t","l","e">>,
      <<"#","#"," ","S","u","b"," ","P","a","r","t">>,
      <<"t","e","x","t">>,
      <<" "," ","#","#","#"," ","D","e","e","p"," ","O","n","e","!">>,            \* leading spaces
      <<"#">>,                                          \* a lone marker
      <<"#","#","#","#","#","#","#"," ","S","e","v","e","n">> }         \* seven markers

TemplateContents == TextsOf(TemplateLinePool, MaxTemplateLines)

\* The metadata arguments: omitted (None), the empty dict, and dicts with
\* present, empty and absent keys.
MetadataPool ==
    { <<>>,
      <<EmptyDict>>,
      <<[title |-> MetaStr(<<"D","o","c">>)]>>,
      <<[title |-> MetaStr(<<>>), author |-> MetaStr(<<"A","n","n">>)]>>,
      <<[title |-> MetaStr(<<"D","o","c">>), description |-> MetaStr(<<>>),
         template |-> MetaStr(<<"m","i","n","e">>), created |-> MetaStr(<<"t","o","d","a","y">>),
         updated |-> MetaStr(<<>>), author |-> MetaStr(<<"A","n","n">>),
         tags |-> MetaList(<<<<"x">>, <<"y">>>>)]>> }


MaxFragments == 2

\* The pieces an HTML export is made of: a heading element, a style element,
\* a paragraph with an entity, a heading element without text, plain text.
HtmlFragmentPool ==
    { <<"<","h","1",">","A","<","/","h","1",">">>,
      <<"<","s","t","y","l","e",">","p","{","}","<","/","s","t","y","l","e",">">>,
      <<"<","p",">","b"," ","&","a","m","p",";"," ","c","<","/","p",">">>,
      <<"<","h","2",">","<","/","h","2",">">>,
      <<"x">> }

\* the pieces one after the other
RECURSIVE Concat(_)
Concat(pieces) ==
    IF Len(pieces) = 0 THEN <<>> ELSE pieces[1] \o Concat(Tail(pieces))

HtmlTexts ==
    {Concat(fs) : fs \in UNION {[1..m -> HtmlFragmentPool] : m \in 0..MaxFragments}}

\* what _get_html_export gives: None or an HTML text
HtmlExports == {<<>>} \cup {<<t>> : t \in HtmlTexts}

\* what extract_text_content gives: nothing, or "# A" and a line "b", which
\* is half as long as the heading element of the pool
StructuredContents == {<<>>, <<"#"," ","A","\n","b">>}

-----------------------------------------------------------------------------
(* The state machine: one call flow.  A caller either analyses a document, *)
(* emits its navigation and validates it (cli.py analyze_structure), or    *)
(* hands a navigation text of its own to the validator.                    *)

\* the engine after TemplateEngine.__init__, no call made yet
NoCall ==
    [op |-> "none", name |-> "", template_data |-> EmptyDict,
     content |-> <<>>, metadata |-> <<>>]

NoResult == [raised |-> FALSE, value |-> <<>>]

\* no call of get_document_content made
DocsIdle ==
    /\ structured_content = <<>>
    /\ exported_html = <<>>
    /\ additional_sections = <<>>
    /\ pc = "idle"
    /\ working_html = <<>>
    /\ step = 0
    /\ failed_at = 0
    /\ response = <<>>

\* no GitHubService call made and no pipeline started
NoRun == [op |-> "none", pc |-> "idle"]

PublishIdle ==
    /\ repo = <<>>
    /\ api_calls = <<>>
    /\ run = NoRun
    /\ config_history = <<>>

\* no caller has invoked anything
ServicesIdle ==
    /\ PublishIdle
    /\ callers = <<>>

TemplateEngineInit ==
    /\ templates = load_default_templates
    /\ custom_templates = EmptyDict
    /\ registered = <<>>
    /\ call = NoCall
    /\ result = NoResult

Init ==
    /\ TemplateEngineInit
    /\ DocsIdle
    /\ ServicesIdle
    /\ structure = <<>>
    /\ validation = <<>>
    /\ \/ /\ doc_content \in {<<d>> : d \in Documents}
          /\ navigation_yaml = <<>>
       \/ /\ doc_content = <<>>
          /\ navigation_yaml \in {<<t>> : t \in NavTexts}

AnalyzeDocumentStructure ==
    /\ Len(doc_content) = 1
    /\ structure = <<>>
    /\ structure' = <<analyze_document_structure(doc_content[1])>>
    /\ UNCHANGED <<doc_content, navigation_yaml, validation>>
    /\ UNCHANGED engine_vars
    /\ UNCHANGED docs_vars
    /\ UNCHANGED service_vars

GenerateMkdocsNavigation ==
    /\ Len(structure) = 1
    /\ navigation_yaml = <<>>
    /\ navigation_yaml' = <<generate_mkdocs_navigation(structure[1], <<>>)>>
    /\ UNCHANGED <<doc_content, structure, validation>>
    /\ UNCHANGED engine_vars
    /\ UNCHANGED docs_vars
    /\ UNCHANGED service_vars

ValidateNavigation ==
    /\ Len(navigation_yaml) = 1
    /\ validation = <<>>
    /\ validation' = <<validate_navigation(navigation_yaml[1])>>
    /\ UNCHANGED <<doc_content, structure, navigation_yaml>>
    /\ UNCHANGED engine_vars
    /\ UNCHANGED docs_vars
    /\ UNCHANGED service_vars

Next ==
    \/ AnalyzeDocumentStructure
    \/ GenerateMkdocsNavigation
    \/ ValidateNavigation

Spec == Init /\ [][Next]_vars

-----------------------------------------------------------------------------
(* The profile registry: a caller registers custom profiles and looks      *)
(* profiles up, in any order and any number of times.                      *)

NavigationIdle ==
    /\ doc_content = <<>>
    /\ structure = <<>>
    /\ navigation_yaml = <<>>
    /\ validation = <<>>

\* one call of create_custom_template(name, template_data)
Register(name, template_data) ==
    LET r == create_custom_template(custom_templates, name, template_data)
    IN  /\ custom_templates' = r.custom_templates
        /\ result' = r.outcome
        /\ call' = [NoCall EXCEPT !.op = "create_custom_template",
                                  !.name = name,
                                  !.template_data = template_data]
        /\ registered' = IF ~r.outcome.raised /\ r.outcome.value = <<TRUE>>
                         THEN Append(registered,
                                     [name |-> name,
                                      template_data |-> template_data])
                         ELSE registered
        /\ UNCHANGED templates
        /\ UNCHANGED nav_vars
        /\ UNCHANGED docs_vars
        /\ UNCHANGED service_vars

CreateCustomTemplate ==
    /\ Len(registered) < MaxRegistrations
    /\ \E name \in CustomNames, template_data \in ProfileData :
           Register(name, template_data)

GetTemplate ==
    \E template_name \in LookupNames :
        /\ result' = Returned(get_template(templates, custom_templates,
                                           template_name))
        /\ call' = [NoCall EXCEPT !.op = "get_template", !.name = template_name]
        /\ UNCHANGED <<templates, custom_templates, registered>>
        /\ UNCHANGED nav_vars
        /\ UNCHANGED docs_vars
        /\ UNCHANGED service_vars

InitRegistry ==
    TemplateEngineInit /\ NavigationIdle /\ DocsIdle /\ ServicesIdle

NextRegistry ==
    \/ CreateCustomTemplate
    \/ GetTemplate

SpecRegistry == InitRegistry /\ [][NextRegistry]_vars

-----------------------------------------------------------------------------
(* Template merging: a caller may register one custom profile and then     *)
(* applies a profile to a content (cli.py apply_template).                 *)

RegisterProfile ==
    /\ call.op = "none"
    /\ \E name \in CustomNames, template_data \in WellFormedProfiles :
           Register(name, template_data)

ApplyTemplate ==
    /\ call.op # "apply_template"
    /\ \E content \in TemplateContents, template_name \in LookupNames,
          metadata \in MetadataPool :
           /\ result' = apply_template(templates, custom_templates, content,
                                       template_name, metadata)
           /\ call' = [NoCall EXCEPT !.op = "apply_template",
                                     !.name = template_name,
                                     !.content = content,
                                     !.metadata = metadata]
           /\ UNCHANGED <<templates, custom_templates, registered>>
           /\ UNCHANGED nav_vars
           /\ UNCHANGED docs_vars
           /\ UNCHANGED service_vars

InitMerger ==
    TemplateEngineInit /\ NavigationIdle /\ DocsIdle /\ ServicesIdle

NextMerger ==
    \/ RegisterProfile
    \/ ApplyTemplate

SpecMerger == InitMerger /\ [][NextMerger]_vars

-----------------------------------------------------------------------------
(* Fetching a document: one call of get_document_content on what the two   *)
(* fetches gave.  _extract_content_from_html runs statement by statement;  *)
(* any of its statements may raise, and its except clause then returns.    *)

\* lines 267-293: the stats and the return, for the final content
ReturnResponse(content, sections) ==
    /\ pc' = "returned"
    /\ response' = <<document_response(content, exported_html, sections)>>
    /\ UNCHANGED <<structured_content, exported_html, working_html, step>>
    /\ UNCHANGED nav_vars
    /\ UNCHANGED engine_vars
    /\ UNCHANGED service_vars

\* the call up to the choice of the source
GetDocumentContent ==
    /\ pc = "idle"
    /\ additional_sections' =
           additional_sections_of(structured_content, exported_html)
    /\ IF use_html_export(additional_sections')
       THEN /\ pc' = "extracting"
            /\ working_html' = exported_html[1]
            /\ UNCHANGED <<structured_content, exported_html, step, response>>
            /\ UNCHANGED nav_vars
            /\ UNCHANGED engine_vars
            /\ UNCHANGED service_vars
       ELSE ReturnResponse(structured_content, additional_sections')
    /\ UNCHANGED failed_at

\* one statement of _extract_content_from_html completes
ExtractStatement ==
    /\ pc = "extracting"
    /\ step < Len(Statements)
    /\ working_html' = Execute(Statements[step + 1], working_html)
    /\ step' = step + 1
    /\ UNCHANGED <<structured_content, exported_html, additional_sections, pc,
                   failed_at, response>>
    /\ UNCHANGED nav_vars
    /\ UNCHANGED engine_vars
    /\ UNCHANGED service_vars

\* the next statement of _extract_content_from_html raises
ExtractFail ==
    /\ pc = "extracting"
    /\ step < Len(Statements)
    /\ failed_at' = step + 1
    /\ UNCHANGED additional_sections
    /\ ReturnResponse(extract_on_failure(exported_html[1], working_html),
                      additional_sections)

\* _extract_content_from_html returns after its last statement
ExtractReturn ==
    /\ pc = "extracting"
    /\ step = Len(Statements)
    /\ UNCHANGED <<failed_at, additional_sections>>
    /\ ReturnResponse(working_html, additional_sections)

InitDocs ==
    /\ TemplateEngineInit
    /\ NavigationIdle
    /\ ServicesIdle
    /\ structured_content \in StructuredContents
    /\ exported_html \in HtmlExports
    /\ additional_sections = <<>>
    /\ pc = "idle"
    /\ working_html = <<>>
    /\ step = 0
    /\ failed_at = 0
    /\ response = <<>>

NextDocs ==
    \/ GetDocumentContent
    \/ ExtractStatement
    \/ ExtractFail
    \/ ExtractReturn

SpecDocs == InitDocs /\ [][NextDocs]_vars

-----------------------------------------------------------------------------
(* GitHubService: the repository object is the collaborator.  Each of its  *)
(* calls returns or raises; faults is the set of calls that fail for a     *)
(* reason of their own (network, rate limit, permission), in addition to   *)
(* the failures the repository state implies.                              *)

\* GITHUB_REPO, the name of the repository
repo_name == <<"o","/","r">>

\* the calls commit_markdown_file and update_mkdocs_nav make on self.repo
ApiOps == {"get_contents", "update_file", "create_file"}

ApiCall(op, path, branch, sha) ==
    [op |-> op, path |-> path, branch |-> branch, sha |-> sha]

\* f"https://github.com/{self.repo_name}/blob/{branch}/{file_path}"
blob_url(branch, file_path) ==
    <<"h","t","t","p","s",":","/","/","g","i","t","h","u","b",".","c","o","m","/">> \o repo_name \o <<"/","b","l","o","b","/">> \o branch \o <<"/">> \o file_path

\* lines 41-42: the path gets the '.md' extension it lacks
with_md(file_path) ==
    IF EndsWith(file_path, <<".","m","d">>) THEN file_path ELSE file_path \o <<".","m","d">>

\* the sha of the file at path on branch, 0 when there is none
ShaOf(r, branch, path) ==
    IF <<branch, path>> \in DOMAIN r.files THEN r.files[<<branch, path>>]
    ELSE 0

\* the repository after a write of path on branch
Written(r, branch, path) ==
    [r EXCEPT !.files =
        [k \in (DOMAIN r.files) \cup {<<branch, path>>} |->
            IF k = <<branch, path>> THEN ShaOf(r, branch, path) + 1
            ELSE r.files[k]]]

\* commit_markdown_file(file_path, content, commit_message, branch): the
\* inner try reads the file and updates it with the sha read (lines 49-58);
\* its except clause, taken when the read or the update raises, creates the
\* file (lines 59-67).  get_contents raises when there is no such file,
\* update_file and create_file when the repository refuses them.
commit_markdown_file(r, file_path, branch, faults) ==
    LET path == with_md(file_path)
        sha == ShaOf(r, branch, path)
        read == ApiCall("get_contents", path, branch, 0)
        update == ApiCall("update_file", path, branch, sha)
        create == ApiCall("create_file", path, branch, 0)
        got == sha > 0 /\ "get_contents" \notin faults
        updated == got /\ "update_file" \notin faults
        created == sha = 0 /\ "create_file" \notin faults
        tried == IF got THEN <<read, update>> ELSE <<read>>
    IN  IF updated
        THEN [repo |-> Written(r, branch, path),
              calls |-> tried,
              outcome |-> Returned(blob_url(branch, path))]
        ELSE IF created
        THEN [repo |-> Written(r, branch, path),
              calls |-> Append(tried, create),
              outcome |-> Returned(blob_url(branch, path))]
        ELSE [repo |-> r, calls |-> Append(tried, create), outcome |-> Raised]

\* str.replace(old, ''): every occurrence of old, left to right, removed
RECURSIVE Removed(_, _)
Removed(s, old) ==
    IF Len(s) < Len(old) \/ Len(old) = 0 THEN s
    ELSE IF StartsWith(s, old)
    THEN Removed(SubSeq(s, Len(old) + 1, Len(s)), old)
    ELSE <<s[1]>> \o Removed(Tail(s), old)

\* line 111: new_file_path.replace('docs/', '')
nav_path_of(new_file_path) == Removed(new_file_path, <<"d","o","c","s","/">>)

\* f"- {title}: {nav_path}"
nav_entry(title, nav_path) == <<"-", " ">> \o title \o <<":", " ">> \o nav_path

\* the text of lines, a line item put before the line at index k
InsertLine(lines, k, item) ==
    SubSeq(lines, 1, k - 1) \o <<item>> \o SubSeq(lines, k, Len(lines))

IsNavHeader(line) == Strip(line) = <<"n", "a", "v", ":">>

\* lines 119-152: the new entry goes before the first list item or blank
\* line that follows a 'nav:' line; when there is none it goes after the
\* blank or indented lines that follow the first 'nav:' line; a file
\* without 'nav:' line is left as it is
insert_nav_entry(current_config, item) ==
    LET lines == Split(current_config, NL)
        headers == {i \in 1..Len(lines) : IsNavHeader(lines[i])}
        first == CHOOSE i \in headers : \A h \in headers : i <= h
        slots == {k \in 1..Len(lines) :
                     /\ \E i \in headers : i < k
                     /\ ~IsNavHeader(lines[k])
                     /\ \/ StartsWith(Strip(lines[k]), <<"-">>)
                        \/ Strip(lines[k]) = <<>>}
        slot == CHOOSE k \in slots : \A x \in slots : k <= x
        rest == {j \in (first + 1)..Len(lines) :
                     ~(\/ Strip(lines[j]) = <<>>
                       \/ StartsWith(lines[j], <<" ", " ">>))}
        stop == IF rest = {} THEN Len(lines) + 1
                ELSE CHOOSE j \in rest : \A x \in rest : j <= x
    IN  IF headers = {} THEN current_config
        ELSE IF slots # {} THEN Join(InsertLine(lines, slot, item), NL)
        ELSE Join(InsertLine(lines, stop, item), NL)

ConfigFile == <<"m","k","d","o","c","s",".","y","m","l">>

\* update_mkdocs_nav(new_file_path, title, branch), lines 101-170: the file
\* is read, nothing is written when the text of the entry occurs in it
\* (line 114), otherwise the file with the entry inserted is written back
\* with the sha read
update_mkdocs_nav(r, new_file_path, title, branch, faults) ==
    LET nav_path == nav_path_of(new_file_path)
        current_config == r.config[branch]
        read == ApiCall("get_contents", ConfigFile, branch, 0)
        update == ApiCall("update_file", ConfigFile, branch, r.config_sha[branch])
        item == <<" ", " ">> \o nav_entry(title, nav_path)
        new_config == insert_nav_entry(current_config, item)
        url == blob_url(branch, ConfigFile)
    IN  IF "get_contents" \in faults
        THEN [repo |-> r, calls |-> <<read>>, outcome |-> Raised]
        ELSE IF Contains(current_config, nav_entry(title, nav_path))
        THEN [repo |-> r, calls |-> <<read>>, outcome |-> Returned(url)]
        ELSE IF "update_file" \in faults
        THEN [repo |-> r, calls |-> <<read, update>>, outcome |-> Raised]
        ELSE [repo |-> [r EXCEPT !.config[branch] = new_config,
                                 !.config_sha[branch] = @ + 1],
              calls |-> <<read, update>>,
              outcome |-> Returned(url)]

(* Inputs of the service calls *)

MaxConfigLines == 2
MaxServiceCalls == 2

MainBranch == <<"m","a","i","n">>
WorkBranch == <<"d","o","c","_","u","p","d","a","t","e">>
BranchNames == {MainBranch, WorkBranch}

DocTitle == <<"T">>

FilePathArgs == {<<"d","o","c","s","/","a",".","m","d">>, <<"d","o","c","s","/","a">>}

\* lines of a mkdocs.yml: the header of the navigation, an entry, a blank
\* line, another key, and an entry for the title that is commented out
ConfigLinePool ==
    {<<"n","a","v",":">>,
     <<" "," ","-"," ","H","o","m","e",":"," ","i","n","d","e","x",".","m","d">>,
     <<>>,
     <<"t","h","e","m","e",":"," ","x">>,
     <<"#"," ","-"," ","T",":"," ","a",".","m","d">>}

ConfigTexts == TextsOf(ConfigLinePool, MaxConfigLines)

\* a repository with both branches, the same mkdocs.yml on each, and the
\* file of the call present (sha 1) or absent on the branch of the call
InitialRepo(config, branch, path, sha) ==
    [files |-> [k \in {<<branch, path>>} |-> sha],
     config |-> [b \in BranchNames |-> config],
     config_sha |-> [b \in BranchNames |-> 1],
     branches |-> BranchNames,
     pulls |-> <<>>]

(* The service called directly: one caller calls commit_markdown_file and  *)
(* update_mkdocs_nav with the same arguments, in any order, one call at a  *)
(* time.                                                                   *)

InitGitHub ==
    /\ TemplateEngineInit
    /\ NavigationIdle
    /\ DocsIdle
    /\ callers = <<>>
    /\ api_calls = <<>>
    /\ \E config \in ConfigTexts, file_path \in FilePathArgs,
          branch \in BranchNames, sha \in {0, 1} :
           /\ repo = InitialRepo(config, branch, with_md(file_path), sha)
           /\ run = [op |-> "none", pc |-> "idle", file_path |-> file_path,
                     title |-> DocTitle, branch |-> branch, calls |-> 0,
                     outcome |-> NoResult]
           /\ config_history = <<config>>

ServiceCall(op, r) ==
    /\ repo' = r.repo
    /\ api_calls' = r.calls
    /\ run' = [run EXCEPT !.op = op,
                          !.pc = IF r.outcome.raised THEN "raised"
                                 ELSE "returned",
                          !.calls = @ + 1,
                          !.outcome = r.outcome]
    /\ UNCHANGED nav_vars
    /\ UNCHANGED engine_vars
    /\ UNCHANGED docs_vars
    /\ UNCHANGED callers

CommitMarkdownFile ==
    /\ run.calls < MaxServiceCalls
    /\ \E faults \in SUBSET ApiOps :
           ServiceCall("commit_markdown_file",
                       commit_markdown_file(repo, run.file_path, run.branch,
                                            faults))
    /\ UNCHANGED config_history

UpdateMkdocsNav ==
    /\ run.calls < MaxServiceCalls
    /\ \E faults \in SUBSET {"get_contents", "update_file"} :
           /\ ServiceCall("update_mkdocs_nav",
                          update_mkdocs_nav(repo, run.file_path, run.title,
                                            run.branch, faults))
           /\ config_history' =
                  IF run'.pc = "returned"
                  THEN Append(config_history, repo'.config[run.branch])
                  ELSE config_history

NextGitHub ==
    \/ CommitMarkdownFile
    \/ UpdateMkdocsNav

SpecGitHub == InitGitHub /\ [][NextGitHub]_vars

-----------------------------------------------------------------------------
(* The publish pipelines: /api/convert (convert_document), /api/create-pr  *)
(* (create_pull_request) and run_documentation_update.  A run is at one    *)
(* step at a time; every step that calls a collaborator returns or raises, *)
(* and the first exception ends the run.                                   *)

PipelineKinds ==
    {"convert_document", "create_pull_request", "run_documentation_update"}

\* /api/convert without request.create_pr: the pull request is created too
next_step_pr_always(kind, at, create_pr) ==
    CASE at = "fetch" ->
             IF kind = "run_documentation_update" THEN "analyse" ELSE "convert"
      [] at = "analyse" -> "convert"
      [] at = "convert" -> "create_branch"
      [] at = "create_branch" -> "commit"
      [] at = "commit" -> "navigation"
      [] at = "navigation" -> "pull_request"
      [] at = "pull_request" -> "return"

\* the step a run goes to when the step at has returned: the order of the
\* statements of main.py:116-175 and 227-290 and of
\* test_integration.py:30-217
next_step(kind, at, create_pr) ==
    CASE at = "fetch" ->
             IF kind = "run_documentation_update" THEN "analyse" ELSE "convert"
      [] at = "analyse" -> "convert"
      [] at = "convert" -> "create_branch"
      [] at = "create_branch" -> "commit"
      [] at = "commit" -> "navigation"
      [] at = "navigation" ->
             IF kind = "convert_document" /\ ~create_pr THEN "return"
             ELSE "pull_request"
      [] at = "pull_request" -> "return"

\* "".join(c if c.isalnum() or c in ('-', '_') else '_' for c in title).lower()
clean_title(title) ==
    Lower(Tuple([i \in 1..Len(title) |->
                    IF IsWord(title[i]) \/ title[i] = "-" THEN title[i]
                    ELSE "_"]))

\* f"docs/{clean_title}.md"
title_path(title) == <<"d","o","c","s","/">> \o clean_title(title) \o <<".","m","d">>

\* what get_document_content returns, as far as the pipelines use it:
\* raw_content is the document resource of the Docs API, a dict
\* (google_docs.py:282-289); headings is the number of its headings
DocContent(title, headings) ==
    [title |-> title,
     raw_content |-> [type |-> "dict", headings |-> headings]]

\* nav_manager.analyze_document_structure(doc_content['raw_content']):
\* _parse_content starts with content.split('\n')
\* (navigation_manager.py:103), which only a str has
analyse_raw_content(raw_content) ==
    IF raw_content.type = "str"
    THEN Returned(analyze_document_structure(raw_content.text))
    ELSE Raised

\* create_branch(branch_name): a ref created from the head of main;
\* create_git_ref raises when the branch exists
create_branch(r, branch_name, fault) ==
    IF fault \/ branch_name \in r.branches
    THEN [repo |-> r, outcome |-> Raised]
    ELSE [repo |->
             [r EXCEPT
                 !.branches = @ \cup {branch_name},
                 !.config = [b \in (DOMAIN @) \cup {branch_name} |->
                                r.config[MainBranch]],
                 !.config_sha = [b \in (DOMAIN @) \cup {branch_name} |->
                                    r.config_sha[MainBranch]],
                 !.files =
                     [k \in (DOMAIN @) \cup
                            {<<branch_name, x[2]>> : x \in DOMAIN @} |->
                         ShaOf(r, MainBranch, k[2])]],
          outcome |-> Returned(branch_name)]

\* create_pull_request(branch_name, title, body): head branch_name, base main
create_pull_request(r, branch_name, fault) ==
    IF fault \/ branch_name \notin r.branches
    THEN [repo |-> r, outcome |-> Raised]
    ELSE [repo |-> [r EXCEPT !.pulls = Append(@, [head |-> branch_name,
                                                  base |-> MainBranch])],
          outcome |-> Returned(Len(r.pulls) + 1)]

(* Inputs of the pipelines *)

\* request.target_path: None or a path
TargetPaths == {<<>>, <<<<"d","o","c","s","/","a">>>>}

PipelineConfigs ==
    {Join(<<<<"n","a","v",":">>, <<" "," ","-"," ","H","o","m","e",":"," ","i","n","d","e","x",".","m","d">>>>, NL),
     Join(<<<<"t","h","e","m","e",":"," ","x">>, <<"n","a","v",":">>>>, NL),
     <<"t","h","e","m","e",":"," ","x">>}

\* the repository before a run: main only, with the file of the run present
\* or absent
PipelineRepo(config, path, sha) ==
    [files |-> [k \in {<<MainBranch, path>>} |-> sha],
     config |-> [b \in {MainBranch} |-> config],
     config_sha |-> [b \in {MainBranch} |-> 1],
     branches |-> {MainBranch},
     pulls |-> <<>>]

PipelineRun(kind, create_pr, target_path, branch, headings) ==
    [op |-> kind, pc |-> "fetch", create_pr |-> create_pr,
     target_path |-> target_path, branch |-> branch, headings |-> headings,
     doc_content |-> <<>>, structure |-> <<>>, trace |-> <<>>,
     faults |-> 0, outcome |-> NoResult]

\* the path the run commits: request.target_path when given, else the path
\* made from the title (main.py:122-126, 236-238); for
\* run_documentation_update the path of the first section
\* (test_integration.py:93), an IndexError (None here) when there is none
file_path_of(r) ==
    IF r.op = "run_documentation_update"
    THEN IF r.structure[1].sections = <<>> THEN <<>>
         ELSE <<<<"d","o","c","s","/">> \o r.structure[1].sections[1].file_path>>
    ELSE IF r.op = "convert_document" /\ r.target_path # <<>>
    THEN r.target_path
    ELSE <<title_path(r.doc_content[1].title)>>

InitPipeline ==
    /\ TemplateEngineInit
    /\ NavigationIdle
    /\ DocsIdle
    /\ callers = <<>>
    /\ api_calls = <<>>
    /\ \E config \in PipelineConfigs, sha \in {0, 1}, kind \in PipelineKinds,
          create_pr \in BOOLEAN, target_path \in TargetPaths,
          branch \in BranchNames, headings \in {0, 1} :
           /\ kind # "convert_document" => create_pr /\ target_path = <<>>
           /\ kind = "run_documentation_update" => branch = WorkBranch
           /\ repo = PipelineRepo(config,
                                  IF target_path = <<>> THEN title_path(DocTitle)
                                  ELSE with_md(target_path[1]),
                                  sha)
           /\ run = PipelineRun(kind, create_pr, target_path, branch, headings)
           /\ config_history = <<config>>

\* the run after the step at has returned (ok) or raised; faults counts the
\* collaborator calls that failed
Advance(r, at, ok, failed) ==
    [r EXCEPT !.pc = IF ok THEN next_step(r.op, at, r.create_pr)
                     ELSE "raised",
              !.trace = Append(@, [at |-> at, ok |-> ok]),
              !.faults = @ + (IF failed THEN 1 ELSE 0)]

Untouched ==
    /\ UNCHANGED nav_vars
    /\ UNCHANGED engine_vars
    /\ UNCHANGED docs_vars
    /\ UNCHANGED callers

\* docs_service.get_document_content(doc_id)
FetchDocument ==
    /\ run.pc = "fetch"
    /\ \E ok \in BOOLEAN :
           run' = [Advance(run, "fetch", ok, ~ok) EXCEPT
                      !.doc_content =
                          IF ok THEN <<DocContent(DocTitle, run.headings)>>
                          ELSE <<>>]
    /\ UNCHANGED <<repo, api_calls, config_history>>
    /\ Untouched

\* test_integration.py:39
AnalyseDocument ==
    /\ run.pc = "analyse"
    /\ LET analysed == analyse_raw_content(run.doc_content[1].raw_content)
       IN  run' = [Advance(run, "analyse", ~analysed.raised, FALSE) EXCEPT
                      !.structure = analysed.value]
    /\ UNCHANGED <<repo, api_calls, config_history>>
    /\ Untouched

\* ai_converter.convert_to_markdown(doc_content['raw_content'])
ConvertToMarkdown ==
    /\ run.pc = "convert"
    /\ \E ok \in BOOLEAN : run' = Advance(run, "convert", ok, ~ok)
    /\ UNCHANGED <<repo, api_calls, config_history>>
    /\ Untouched

\* github_service.create_branch(branch_name)
CreateBranch ==
    /\ run.pc = "create_branch"
    /\ \E fault \in BOOLEAN :
           LET r == create_branch(repo, run.branch, fault)
           IN  /\ repo' = r.repo
               /\ run' = Advance(run, "create_branch", ~r.outcome.raised,
                                 r.outcome.raised)
    /\ UNCHANGED <<api_calls, config_history>>
    /\ Untouched

\* github_service.commit_markdown_file(file_path, ...), the main file
CommitMainFile ==
    /\ run.pc = "commit"
    /\ IF file_path_of(run) = <<>>
       THEN /\ run' = Advance(run, "commit", FALSE, FALSE)
            /\ UNCHANGED <<repo, api_calls>>
       ELSE \E faults \in SUBSET ApiOps :
               LET r == commit_markdown_file(repo, file_path_of(run)[1],
                                             run.branch, faults)
               IN  /\ repo' = r.repo
                   /\ api_calls' = r.calls
                   /\ run' = Advance(run, "commit", ~r.outcome.raised,
                                     r.outcome.raised)
    /\ UNCHANGED config_history
    /\ Untouched

\* github_service.update_mkdocs_nav(file_path, title, branch)
UpdateNavigation ==
    /\ run.pc = "navigation"
    /\ \E faults \in SUBSET {"get_contents", "update_file"} :
           LET r == update_mkdocs_nav(repo, file_path_of(run)[1],
                                      run.doc_content[1].title, run.branch,
                                      faults)
           IN  /\ repo' = r.repo
               /\ api_calls' = r.calls
               /\ run' = Advance(run, "navigation", ~r.outcome.raised,
                                 r.outcome.raised)
               /\ config_history' =
                      IF r.outcome.raised THEN config_history
                      ELSE Append(config_history, r.repo.config[run.branch])
    /\ Untouched

\* github_service.create_pull_request(branch_name, title, body)
CreatePullRequest ==
    /\ run.pc = "pull_request"
    /\ \E fault \in BOOLEAN :
           LET r == create_pull_request(repo, run.branch, fault)
           IN  /\ repo' = r.repo
               /\ run' = Advance(run, "pull_request", ~r.outcome.raised,
                                 r.outcome.raised)
    /\ UNCHANGED <<api_calls, config_history>>
    /\ Untouched

\* the response: status "success" and the URL of the pull request, None
\* when none was asked for
PipelineReturn ==
    /\ run.pc = "return"
    /\ run' = [run EXCEPT
                  !.pc = "returned",
                  !.outcome = Returned([status |-> "success",
                                        pulls |-> Len(repo.pulls)])]
    /\ UNCHANGED <<repo, api_calls, config_history>>
    /\ Untouched

NextPipeline ==
    \/ FetchDocument
    \/ AnalyseDocument
    \/ ConvertToMarkdown
    \/ CreateBranch
    \/ CommitMainFile
    \/ UpdateNavigation
    \/ CreatePullRequest
    \/ PipelineReturn

SpecPipeline == InitPipeline /\ [][NextPipeline]_vars

\* a run that is started is carried on: the event loop runs the coroutine to
\* its end (asyncio.run, test_integration.py:228; the request handler of the
\* endpoints)
SpecPipelineFair == SpecPipeline /\ WF_vars(NextPipeline)

-----------------------------------------------------------------------------
(* Concurrent use: two callers invoke the transformation operations on one *)
(* NavigationManager and one TemplateEngine while custom profiles are      *)
(* registered.  An invocation works on its arguments and its locals; the   *)
(* one read of shared state is get_template in apply_template              *)
(* (template_engine.py:206), a dict lookup.  Its membership test and its   *)
(* read are taken as one step: the registry only grows, so the two give    *)
(* what one lookup gives at the time of the test or of the read.           *)

Callers == {1, 2}

Operations ==
    {"analyze_document_structure", "generate_mkdocs_navigation",
     "validate_navigation", "apply_template"}

\* the texts the callers pass: a document, a manifest, a lone entry
CallerTexts ==
    { Join(<<<<"#"," ","A","P","I"," ","G","u","i","d","e">>, <<"#","#"," ","T","e","a","m"," ","F","l","o","w">>>>, NL),
      Join(<<<<"n","a","v",":">>, <<" "," ","-"," ","H","o","m","e",":"," ","i","n","d","e","x",".","m","d">>>>, NL),
      <<" "," ","-"," ","H","o","m","e",":"," ","i","n","d","e","x",".","m","d">> }

\* the names the callers apply: built-in, never registered, custom
CallerTemplateNames == {"standard_docs", "unknown", "team_docs"}

\* the profile that is registered meanwhile
RegisteredProfiles == {Handbook}

CallerMetadata == <<[title |-> MetaStr(<<"D","o","c">>)]>>

Idle ==
    [op |-> "none", pc |-> "idle", content |-> <<>>, template_name |-> "",
     seen |-> EmptyDict, outcome |-> NoResult, alone |-> NoResult]

\* what the operation gives on the content, with the registry custom
invoke(op, content, template_name, tpls, custom) ==
    CASE op = "analyze_document_structure" ->
             Returned(analyze_document_structure(content))
      [] op = "generate_mkdocs_navigation" ->
             Returned(generate_mkdocs_navigation(
                          analyze_document_structure(content), <<>>))
      [] op = "validate_navigation" ->
             Returned(validate_navigation(content))
      [] op = "apply_template" ->
             apply_template(tpls, custom, content, template_name,
                            CallerMetadata)

\* the names that invocations in progress look up
NamesInUse ==
    {callers[c].template_name :
        c \in {x \in Callers : /\ callers[x].op = "apply_template"
                               /\ callers[x].pc # "returned"}}

\* a caller invokes an operation; alone is what the invocation gives when
\* it runs to its end at once
Invoke(c) ==
    /\ callers[c].pc = "idle"
    /\ \E op \in Operations, content \in CallerTexts,
          template_name \in CallerTemplateNames :
           /\ op # "apply_template" => template_name = "standard_docs"
           /\ callers' =
                  [callers EXCEPT ![c] =
                      [Idle EXCEPT
                          !.op = op,
                          !.pc = IF op = "apply_template" THEN "lookup"
                                 ELSE "running",
                          !.content = content,
                          !.template_name = template_name,
                          !.alone = invoke(op, content, template_name,
                                           templates, custom_templates)]]
    /\ UNCHANGED nav_vars
    /\ UNCHANGED engine_vars
    /\ UNCHANGED docs_vars
    /\ UNCHANGED publish_vars

\* template = self.get_template(template_name): the registry as it is now
LookupTemplate(c) ==
    /\ callers[c].pc = "lookup"
    /\ callers' = [callers EXCEPT ![c].pc = "running",
                                  ![c].seen = custom_templates]
    /\ UNCHANGED nav_vars
    /\ UNCHANGED engine_vars
    /\ UNCHANGED docs_vars
    /\ UNCHANGED publish_vars

\* the rest of the invocation, on its locals
Complete(c) ==
    /\ callers[c].pc = "running"
    /\ callers' =
           [callers EXCEPT
               ![c].pc = "returned",
               ![c].outcome = invoke(callers[c].op, callers[c].content,
                                     callers[c].template_name, templates,
                                     callers[c].seen)]
    /\ UNCHANGED nav_vars
    /\ UNCHANGED engine_vars
    /\ UNCHANGED docs_vars
    /\ UNCHANGED publish_vars

\* create_custom_template under a name no invocation in progress looks up
RegisterOther ==
    /\ Len(registered) < MaxRegistrations
    /\ \E name \in (CustomNames \ NamesInUse),
          template_data \in RegisteredProfiles :
           Register(name, template_data)

InitReentrant ==
    /\ TemplateEngineInit
    /\ NavigationIdle
    /\ DocsIdle
    /\ PublishIdle
    /\ callers = [c \in Callers |-> Idle]

NextReentrant ==
    \/ \E c \in Callers : Invoke(c)
    \/ \E c \in Callers : LookupTemplate(c)
    \/ \E c \in Callers : Complete(c)
    \/ RegisterOther

SpecReentrant == InitReentrant /\ [][NextReentrant]_vars

-----------------------------------------------------------------------------
(* What the claims speak about, stated on the input text itself.           *)

\* the analysis has returned (and its result has not been used yet)
Analysed == Len(doc_content) = 1 /\ Len(structure) = 1 /\ navigation_yaml = <<>>

Sections == structure[1].sections

\* the lines of a text, each trimmed
TrimmedLinesOf(text) ==
    LET raw == Split(text, NL)
    IN  Tuple([p \in 1..Len(raw) |-> Strip(raw[p])])

\* a heading line: one or more '#' markers, whitespace, then text
IsHeadingLine(t) ==
    LET k == HashRun(t)
    IN  k >= 1 /\ k < Len(t) /\ IsSpace(t[k + 1])
        /\ \E j \in (k + 2)..Len(t) : ~IsSpace(t[j])

\* the text of a heading line: what follows the markers, trimmed
HeadingText(t) == Strip(SubSeq(t, HashRun(t) + 1, Len(t)))

\* positions of the heading lines among lines, in document order
HeadingPositionsOf(lines) ==
    LET Keep(p) == IsHeadingLine(lines[p])
    IN  SelectSeq([p \in 1..Len(lines) |-> p], Keep)

\* the non-blank, non-heading lines after heading number k (hs are the
\* heading positions) and before the next heading or the end of the text,
\* newline-joined
BodyOf(lines, hs, k) ==
    LET from == hs[k]
        to == IF k < Len(hs) THEN hs[k + 1] ELSE Len(lines) + 1
        Keep(p) == from < p /\ p < to /\ lines[p] # <<>>
        ps == SelectSeq([p \in 1..Len(lines) |-> p], Keep)
    IN  Join([n \in 1..Len(ps) |-> lines[ps[n]]], NL)

SlugAlphabet == LowerLetters \cup Digits \cup {"-"}

-----------------------------------------------------------------------------
(* C1 *)

C2_LevelInRange ==
    Analysed =>
        LET lines == TrimmedLinesOf(doc_content[1])
        IN  /\ \A k \in 1..Len(Sections) : Sections[k].level \in 1..6
            /\ Len(Sections) =
                  Cardinality({p \in 1..Len(lines) :
                                  IsHeadingLine(lines[p]) /\ HashRun(lines[p]) <= 6})

(* C3 *)

\* C3: the title of every section is at most 100 characters long and holds
\* no newline.
C3_TitleBounded ==
    Analysed =>
        \A k \in 1..Len(Sections) :
            /\ Len(Sections[k].title) <= 100
            /\ ~HasChar(Sections[k].title, NL)

\* heading texts of more than 100 characters: one that is truncated to 100
\* characters, one that a break point shortens
C3_Witness ==
    /\ Analysed
    /\ Len(Sections) = 2
    /\ LET lines == TrimmedLinesOf(doc_content[1])
           hs == HeadingPositionsOf(lines)
       IN  /\ Len(hs) = 2
           /\ Len(HeadingText(lines[hs[1]])) > 100
           /\ Len(Sections[1].title) = 100
           /\ Len(HeadingText(lines[hs[2]])) > 100
           /\ Len(Sections[2].title) < 100

(* C4 *)

\* C4: the path of a level-1 section ends with '.md' and its part before
\* the extension is non-empty and made of [a-z0-9-] only.
C4_PathCharset ==
    Analysed =>
        \A k \in 1..Len(Sections) :
            Sections[k].level = 1 =>
                LET path == Sections[k].file_path
                    stem == SubSeq(path, 1, Len(path) - Len(MdExt))
                IN  /\ EndsWith(path, MdExt)
                    /\ Len(stem) >= 1
                    /\ \A n \in 1..Len(stem) : stem[n] \in SlugAlphabet

(* C5 *)

\* C5 as stated: the path is a function of (title, level) alone; no section
\* is dropped; two sections of one level whose titles slug to the same
\* value carry the same path.
C5_AsStated ==
    Analysed =>
        /\ Len(Sections) = Len(HeadingPositionsOf(TrimmedLinesOf(doc_content[1])))
        /\ \A k \in 1..Len(Sections) :
              Sections[k].file_path =
                  generate_file_path(Sections[k].title, Sections[k].level,
                                     "standard_docs")
        /\ \A j, k \in 1..Len(Sections) :
              (/\ j < k
               /\ Sections[j].level = Sections[k].level
               /\ clean_filename(Sections[j].title)
                     = clean_filename(Sections[k].title))
              => Sections[j].file_path = Sections[k].file_path

\* the slug of the first n characters of a title
PrefixSlug(title, n) == clean_filename(Prefix(title, n))

\* C5 (amended): as C5, for two sections of one level whose titles, cut to
\* their first 50 characters, slug to the same value and, at level 2 or
\* deeper, whose titles cut to their first 30 characters do so as well.
C5_SilentCollision ==
    Analysed =>
        /\ Len(Sections) = Len(HeadingPositionsOf(TrimmedLinesOf(doc_content[1])))
        /\ \A k \in 1..Len(Sections) :
              Sections[k].file_path =
                  generate_file_path(Sections[k].title, Sections[k].level,
                                     "standard_docs")
        /\ \A j, k \in 1..Len(Sections) :
              (/\ j < k
               /\ Sections[j].level = Sections[k].level
               /\ PrefixSlug(Sections[j].title, 50)
                     = PrefixSlug(Sections[k].title, 50)
               /\ (Sections[j].level >= 2 =>
                      PrefixSlug(Sections[j].title, 30)
                         = PrefixSlug(Sections[k].title, 30)))
              => Sections[j].file_path = Sections[k].file_path

\* two sections whose titles differ and whose paths are the same, and the
\* same title allocated again after another one
C5_Witness ==
    /\ Analysed
    /\ Len(Sections) = 3
    /\ Sections[1].title # Sections[2].title
    /\ Sections[1].file_path = Sections[2].file_path
    /\ Sections[3].title = Sections[1].title
    /\ Sections[3].file_path = Sections[1].file_path

(* C6 *)

\* the lowercased titles, joined by one space
TitlesText ==
    Join([k \in 1..Len(Sections) |-> Lower(Sections[k].title)], " ")

\* "a","p","i" etc. written as the texts they are
MentionsTechnical ==
    \/ Contains(TitlesText, <<"a","p","i">>)
    \/ Contains(TitlesText, <<"r","e","f","e","r","e","n","c","e">>)
    \/ Contains(TitlesText, <<"t","e","c","h","n","i","c","a","l">>)
    \/ Contains(TitlesText, <<"c","o","d","e">>)

MentionsProject ==
    \/ Contains(TitlesText, <<"t","e","a","m">>)
    \/ Contains(TitlesText, <<"p","r","o","c","e","s","s">>)
    \/ Contains(TitlesText, <<"p","r","o","j","e","c","t">>)
    \/ Contains(TitlesText, <<"g","o","a","l","s">>)

\* C6: suggested_template is technical_docs exactly when a technical keyword
\* occurs, otherwise project_docs exactly when a project keyword occurs,
\* otherwise standard_docs.
C6_SuggestedTemplate ==
    Analysed =>
        structure[1].suggested_template =
            IF MentionsTechnical THEN "technical_docs"
            ELSE IF MentionsProject THEN "project_docs"
            ELSE "standard_docs"

\* keywords of both groups are present and the technical profile wins
C6_Witness ==
    /\ Analysed
    /\ MentionsTechnical
    /\ MentionsProject
    /\ structure[1].suggested_template = "technical_docs"

(* C7 *)

Validated == Len(navigation_yaml) = 1 /\ Len(validation) = 1

\* the first non-empty line of a text, trimmed; <<>> when every line is empty
FirstNonEmptyLine(text) ==
    LET lines == Split(text, NL)
        NonEmpty(p) == lines[p] # <<>>
        ps == SelectSeq([p \in 1..Len(lines) |-> p], NonEmpty)
    IN  IF Len(ps) = 0 THEN <<>> ELSE Strip(lines[ps[1]])

\* C7: is_valid is False, with the header error, exactly when the first
\* non-empty line, trimmed, is not 'nav:'.
C7_HeaderRule ==
    Validated =>
        /\ validation[1].is_valid = (FirstNonEmptyLine(navigation_yaml[1]) = NavHeader)
        /\ (\E n \in 1..Len(validation[1].errors) :
               validation[1].errors[n] = HeaderError)
           = (FirstNonEmptyLine(navigation_yaml[1]) # NavHeader)

(* C8 *)

\* a text with its first line replaced by header
WithHeader(text, header) ==
    LET lines == Split(text, NL)
    IN  Join(<<header>> \o SubSeq(lines, 2, Len(lines)), NL)

\* C8: a report is returned and no exception is recorded; there is one
\* indentation warning per non-blank line after the first that does not begin
\* with two spaces, in order; warnings and suggestions are those of the same
\* text under a passing and under a failing header; is_valid is decided by
\* the header rule alone.
C8_NeverShortCircuits ==
    Validated =>
        LET report == validation[1]
            text == navigation_yaml[1]
            lines == Split(text, NL)
            Indented(w) == w.kind = "Inconsistent indentation"
            Bad(p) == /\ p >= 2
                      /\ \E n \in 1..Len(lines[p]) : ~IsSpace(lines[p][n])
                      /\ ~(Len(lines[p]) >= 2 /\ lines[p][1] = " " /\ lines[p][2] = " ")
            bad == SelectSeq([p \in 1..Len(lines) |-> p], Bad)
            got == SelectSeq(report.warnings, Indented)
        IN  /\ \A n \in 1..Len(report.errors) : report.errors[n] = HeaderError
            /\ report.is_valid = (report.errors = <<>>)
            /\ Len(got) = Len(bad)
            /\ \A n \in 1..Len(bad) : got[n].line = bad[n]
            /\ \A header \in {NavHeader, <<"x">>} :
                  LET other == validate_navigation(WithHeader(text, header))
                  IN  /\ other.warnings = report.warnings
                      /\ other.suggestions = report.suggestions
                      /\ other.is_valid = (header = NavHeader)

\* the header rule failed and an indentation warning and a suggestion were
\* still recorded
C8_Witness ==
    /\ Validated
    /\ ~validation[1].is_valid
    /\ \E n \in 1..Len(validation[1].warnings) :
          validation[1].warnings[n].kind = "Inconsistent indentation"
    /\ Len(validation[1].suggestions) >= 1

(* C9 *)

\* the manifest of the analysed document has been emitted
Emitted ==
    Len(structure) = 1 /\ Len(navigation_yaml) = 1 /\ validation = <<>>

IsLevelOne(section) == section.level = 1

\* the line '  - <title>: <path>'
EntryLine(title, path) ==
    <<" ", " ", "-", " ">> \o title \o <<":", " ">> \o path

\* C9: with a level-1 section present, the manifest is 'nav:' followed by
\* one line '  - <title>: <path>' per level-1 section, in document order,
\* and nothing else; every entry line is indented by exactly two spaces.
C9_LevelOnePages ==
    (Emitted /\ \E k \in 1..Len(Sections) : Sections[k].level = 1) =>
        LET tops == SelectSeq(Sections, IsLevelOne)
            lines == Split(navigation_yaml[1], NL)
        IN  /\ Len(lines) = 1 + Len(tops)
            /\ lines[1] = NavHeader
            /\ \A n \in 1..Len(tops) :
                  /\ lines[n + 1] = EntryLine(tops[n].title, tops[n].file_path)
                  /\ lines[n + 1][1] = " " /\ lines[n + 1][2] = " "
                  /\ lines[n + 1][3] = "-"

\* two level-1 sections around a deeper one, which gets no line
C9_Witness ==
    /\ Emitted
    /\ Len(Sections) = 3
    /\ Sections[1].level = 1 /\ Sections[2].level >= 2 /\ Sections[3].level = 1
    /\ Len(Split(navigation_yaml[1], NL)) = 3

(* C10 *)

\* "how", "what", ... occurs in the lowercased title
IsNarrative(title) ==
    LET t == Lower(title)
    IN  \/ Contains(t, <<"h","o","w">>)
        \/ Contains(t, <<"w","h","a","t">>)
        \/ Contains(t, <<"w","h","e","n">>)
        \/ Contains(t, <<"w","h","e","r","e">>)
        \/ Contains(t, <<"w","h","y">>)
        \/ Contains(t, <<"g","u","i","d","e">>)
        \/ Contains(t, <<"f","l","o","w">>)
        \/ Contains(t, <<"t","r","a","c","k","i","n","g">>)
        \/ Contains(t, <<"c","o","m","p","e","n","s","a","t","i","o","n">>)

Qualifies(section) ==
    Len(Strip(section.title)) < 50 /\ ~IsNarrative(Strip(section.title))

\* C10: without a level-1 section, the manifest is 'nav:' followed by one
\* entry per section whose trimmed title is shorter than 50 characters and
\* holds no narrative word, in document order, each with the path its title
\* gets at level 1 (no directory); with no such section it is 'nav:' alone.
C10_FallbackPages ==
    (Emitted /\ \A k \in 1..Len(Sections) : Sections[k].level # 1) =>
        LET picked == SelectSeq(Sections, Qualifies)
            lines == Split(navigation_yaml[1], NL)
        IN  /\ Len(lines) = 1 + Len(picked)
            /\ lines[1] = NavHeader
            /\ (Len(picked) = 0 => navigation_yaml[1] = NavHeader)
            /\ \A n \in 1..Len(picked) :
                  LET title == Strip(picked[n].title)
                      path == generate_file_path(title, 1, "standard_docs")
                  IN  /\ lines[n + 1] = EntryLine(title, path)
                      /\ ~HasChar(path, "/")

\* no level-1 section; one section is too long, one holds a narrative word,
\* one qualifies and is listed
C10_Witness ==
    /\ Emitted
    /\ Len(Sections) = 3
    /\ \A k \in 1..3 : Sections[k].level >= 2
    /\ Len(Strip(Sections[1].title)) >= 50
    /\ IsNarrative(Sections[2].title)
    /\ Qualifies(Sections[3])
    /\ Len(Split(navigation_yaml[1], NL)) = 2

-----------------------------------------------------------------------------
(* C11 *)

BuiltInNames == {"standard_docs", "technical_docs", "project_docs", "minimal"}

\* the successful registrations of a name, oldest first
RegistrationsOf(name) ==
    LET IsName(r) == r.name = name
    IN  SelectSeq(registered, IsName)

\* get_template has returned
LookedUp == call.op = "get_template"

\* C11: after any sequence of registrations, looking up a name that is
\* neither registered as custom nor built in returns the built-in profile
\* standard_docs without an error, and looking up a name registered as
\* custom returns the profile of its most recent registration.
C11_LookupFallback ==
    LookedUp =>
        LET regs == RegistrationsOf(call.name)
        IN  /\ ~result.raised
            /\ Len(regs) > 0 =>
                   result.value = <<regs[Len(regs)].template_data>>
            /\ (Len(regs) = 0 /\ call.name \notin BuiltInNames) =>
                   result.value = <<load_default_templates.standard_docs>>

\* a built-in name registered twice as custom, with different profiles, is
\* looked up
C11_Witness ==
    /\ LookedUp
    /\ call.name \in BuiltInNames
    /\ LET regs == RegistrationsOf(call.name)
       IN  Len(regs) = 2 /\ regs[1].template_data # regs[2].template_data

-----------------------------------------------------------------------------
(* C12 *)

\* some key of the set keys is not a key of the dict d
Lacks(d, keys) == \E k \in keys : k \notin DOMAIN d

\* a malformed profile: a top-level key, a structure key or a formatting key
\* is missing, or sections is no list
Malformed(d) ==
    IF Lacks(d, {"name", "description", "structure", "sections", "formatting"})
    THEN TRUE
    ELSE \/ Lacks(d.structure, {"frontmatter", "toc", "breadcrumbs", "edit_uri"})
         \/ Lacks(d.formatting,
                  {"heading_style", "code_blocks", "admonitions", "tables"})
         \/ ~d.sections.is_list

\* C12: a call registering a malformed profile leaves the custom registry
\* and the built-in set exactly as they were, so that every name looks up
\* to the same profile after the call as before it.
C12_MalformedAborts ==
    [][(call'.op = "create_custom_template" /\ Malformed(call'.template_data))
          => /\ custom_templates' = custom_templates
             /\ templates' = templates
             /\ \A n \in LookupNames :
                    get_template(templates', custom_templates', n)
                        = get_template(templates, custom_templates, n)]_vars

\* a malformed profile has been offered under a name that holds a custom
\* profile
C12_Witness ==
    /\ call.op = "create_custom_template"
    /\ Malformed(call.template_data)
    /\ call.name \in DOMAIN custom_templates
    /\ Len(RegistrationsOf(call.name)) > 0

-----------------------------------------------------------------------------
(* C13 *)

\* create_custom_template has returned or raised
Registering == call.op = "create_custom_template"

\* C13 as stated: registering a malformed profile raises to the caller.
C13_AsStated ==
    (Registering /\ Malformed(call.template_data)) => result.raised

\* a profile on which the validation itself fails: the top-level keys are
\* there, and structure is None, or structure is complete, sections is a
\* list and formatting is None
BreaksValidation(d) ==
    /\ ~Lacks(d, {"name", "description", "structure", "sections", "formatting"})
    /\ \/ IsNone(d.structure)
       \/ /\ ~Lacks(d.structure, {"frontmatter", "toc", "breadcrumbs", "edit_uri"})
          /\ d.sections.is_list
          /\ IsNone(d.formatting)

\* C13, amended: create_custom_template returns True for a well-formed
\* profile and returns False, without raising, for a malformed one; it
\* raises only when the validation itself fails with an exception, which
\* happens when structure (or, reached after the other checks, formatting)
\* is None.
C13_SilentFalse ==
    Registering =>
        LET d == call.template_data
        IN  /\ result.raised <=> BreaksValidation(d)
            /\ ~result.raised => result.value = <<~Malformed(d)>>

\* a profile that lacks a formatting key has been offered, and the call
\* returned False
C13_Witness ==
    /\ Registering
    /\ ~Lacks(call.template_data,
              {"name", "description", "structure", "sections", "formatting"})
    /\ Lacks(call.template_data.formatting, {"heading_style"})
    /\ ~IsNone(call.template_data.formatting)
    /\ ~result.raised
    /\ result.value = <<FALSE>>

-----------------------------------------------------------------------------
(* C14 *)

\* apply_template has returned or raised
Applied == call.op = "apply_template"

\* C14: no core operation other than a malformed registration aborts; in
\* particular apply_template returns a text for every content, every
\* profile name, known or unknown, and every metadata argument, the omitted
\* one included.  (The analysis, the navigation emission and the validation
\* have no raising branch for a text argument; apply_template has one.)
C14_NeverAborts ==
    Applied => ~result.raised

-----------------------------------------------------------------------------
(* C15 *)

\* the profile apply_template selected
SelectedProfile == get_template(templates, custom_templates, call.name)

\* C15 as stated: the keys the caller's metadata holds a non-empty value
\* for, in the frontmatter order, each with the caller's value
CallerItems(metadata) ==
    LET Supplied(k) == k \in DOMAIN metadata /\ Truthy(metadata[k])
        kept == SelectSeq(frontmatter_keys, Supplied)
    IN  [i \in 1..Len(kept) |-> [key |-> kept[i], value |-> metadata[kept[i]]]]

\* a text made of a frontmatter block listing items, a blank line and body,
\* and whatever follows
BlockThenBody(text, items, body) ==
    StartsWith(text, yaml_dump(items) \o <<NL, NL>> \o body)

ListedItems(profile, metadata) ==
    LET value(k) ==
            IF k = "template" THEN MetaStr(profile.name)
            ELSE IF k \in DOMAIN metadata THEN metadata[k]
            ELSE IF k = "title" THEN MetaStr(DefaultTitle)
            ELSE MetaStr(<<>>)
        Listed(k) == Truthy(value(k))
        kept == SelectSeq(frontmatter_keys, Listed)
    IN  [i \in 1..Len(kept) |-> [key |-> kept[i], value |-> value(kept[i])]]

-----------------------------------------------------------------------------
(* C16 *)

\* a heading line of a content: trimmed, one to six markers, whitespace and
\* a title
IsContentHeading(line) ==
    LET s == Strip(line)
        k == HashRun(s)
    IN  k >= 1 /\ k <= HeadingMaxMarkers /\ k < Len(s) /\ IsSpace(s[k + 1])

\* the entry the table of contents owes to a heading line: two spaces for
\* each level above the first, then the title linked to its anchor
OwedEntry(line) ==
    LET s == Strip(line)
        level == HashRun(s)
        title == Strip(SubSeq(s, level + 1, Len(s)))
    IN  Rep(" ", 2 * (level - 1)) \o <<"-", " ", "[">> \o title
        \o <<"]", "(", "#">> \o create_anchor(title) \o <<")">>

\* the table of contents owed to a content: its header, a blank line and
\* one entry for each heading line, in order
OwedToc(content) ==
    LET lines == Split(content, NL)
        hs == SelectSeq([i \in 1..Len(lines) |-> i],
                        LAMBDA i : IsContentHeading(lines[i]))
    IN  Join(<<TocHeader, <<>>>> \o [n \in 1..Len(hs) |-> OwedEntry(lines[hs[n]])],
             NL)

\* every line of the content that begins with a marker is a heading line
PlainHeadings(content) ==
    LET lines == Split(content, NL)
    IN  \A i \in 1..Len(lines) :
            StartsWith(Strip(lines[i]), <<"#">>) => IsContentHeading(lines[i])

\* the returned text without what follows the content
FrontAndBody ==
    LET profile == SelectedProfile
        body == format_content(call.content, profile)
    IN  IF profile.structure.frontmatter
        THEN yaml_dump(ListedItems(profile, call.metadata[1]))
             \o <<NL, NL>> \o body
        ELSE body

\* C16: for a profile with the toc flag true, of either heading style, the
\* text apply_template returns ends with a table of contents that has
\* exactly one entry for each heading line of the input content, in order,
\* indented by two spaces times (level - 1) and linking the title to its
\* anchor; with the toc flag false nothing follows the content.
C16_TocEntries ==
    (Applied /\ ~result.raised /\ PlainHeadings(call.content)) =>
        IF SelectedProfile.structure.toc
        THEN result.value[1] = FrontAndBody \o <<NL, NL>> \o OwedToc(call.content)
        ELSE result.value[1] = FrontAndBody


-----------------------------------------------------------------------------
(* C17 *)

\* get_document_content has returned
DocumentReturned == pc = "returned" /\ Len(response) = 1

\* an export was obtained and is more than double the structured extraction
ExportLonger ==
    /\ Len(exported_html) = 1
    /\ Len(exported_html[1]) > HtmlLengthFactor * Len(structured_content)

\* the export holds an h1..h6 element whose text is not empty
ExportHasHeading ==
    /\ Len(exported_html) = 1
    /\ Len(parse_html_sections(exported_html[1])) > 0

\* the returned content is the export put through the statements of the
\* extractor that completed
ContentFromExport ==
    response[1].content = ExecuteRange(1, step, exported_html[1])

ContentIsStructured == response[1].content = structured_content

\* C17 as stated: get_document_content returns text derived from the HTML
\* export exactly when an export was obtained and is more than double the
\* length of the structured extraction; otherwise it returns the structured
\* extraction unchanged.
C17_AsStated ==
    DocumentReturned =>
        IF ExportLonger THEN ContentFromExport ELSE ContentIsStructured

\* C17: get_document_content returns text derived from the HTML export
\* exactly when an export was obtained, is more than double the length of the
\* structured extraction and holds at least one heading element with a
\* non-empty text; in every other case, an export that long without such a
\* heading included, it returns the structured extraction unchanged.
C17_FallbackChoice ==
    DocumentReturned =>
        IF ExportLonger /\ ExportHasHeading
        THEN ContentFromExport
        ELSE ContentIsStructured

\* the fallback replaced a structured extraction that was not empty
C17_Witness ==
    /\ DocumentReturned
    /\ ExportLonger
    /\ ExportHasHeading
    /\ Len(structured_content) > 0
    /\ failed_at = 0
    /\ step = Len(Statements)
    /\ ~ContentIsStructured

-----------------------------------------------------------------------------
(* C18 *)

\* the statements a..m of a stage executed on text, in order
RECURSIVE RunFrom(_, _, _, _)
RunFrom(stage, a, m, text) ==
    IF a > m THEN text
    ELSE LET after == Execute(stage[a], text)
         IN  IF Len(after) >= 0 THEN RunFrom(stage, a + 1, m, after) ELSE after

\* the first m statements of a stage executed on text
RunStatements(stage, m, text) == RunFrom(stage, 1, m, text)

\* the output of stage k: the stages 1..k run in their order on text
RECURSIVE AfterStage(_, _)
AfterStage(k, text) ==
    IF k = 0 THEN text
    ELSE RunStatements(Stages[k], Len(Stages[k]), AfterStage(k - 1, text))

\* the stages in the order the claim names them
StageOrder ==
    Stages = << StripStyles, ConvertHeadings, ConvertBlocks, StripTags,
                html_entities, NormaliseWhitespace, RemoveCss, CorrectHeaders >>

\* the extractor was called and get_document_content has returned
ExtractorReturned == DocumentReturned /\ step + failed_at > 0

\* the statements of the failing stage that completed before the failure
CompletedInStage == failed_at - 1 - StatementsBefore(StageOf(failed_at))

-----------------------------------------------------------------------------
(* C19 *)

\* the lines of BodyOf as they are in the input: raw are the lines of the
\* text, lines the same lines trimmed
RawBodyOf(raw, lines, hs, k) ==
    LET from == hs[k]
        to == IF k < Len(hs) THEN hs[k + 1] ELSE Len(lines) + 1
        Keep(p) == from < p /\ p < to /\ lines[p] # <<>>
        ps == SelectSeq([p \in 1..Len(lines) |-> p], Keep)
    IN  Join([n \in 1..Len(ps) |-> raw[ps[n]]], NL)

\* C19: every non-heading, non-blank line that follows the first heading
\* appears in the content of the section that owns it exactly as it was in
\* the input, its leading and trailing whitespace included: the content of a
\* section is the newline-join of its lines as the input has them.
C19_VerbatimLines ==
    Analysed =>
        LET raw == Split(doc_content[1], NL)
            lines == TrimmedLinesOf(doc_content[1])
            hs == HeadingPositionsOf(lines)
        IN  \A k \in 1..Len(Sections) :
                Sections[k].content = RawBodyOf(raw, lines, hs, k)


-----------------------------------------------------------------------------
(* C20 *)

\* the number of '/' in a path
Slashes(path) == Cardinality({n \in 1..Len(path) : path[n] = "/"})

\* '<dir>/<file>.md' from the section's own title
OwnTitleLayout(title) ==
    PrefixSlug(title, ParentPrefixLen) \o <<"/">>
        \o PrefixSlug(title, FileTitleMaxLen) \o MdExt

-----------------------------------------------------------------------------
(* C21 *)

\* the positions after the first line of the lines that hold '.md'
MdLines(lines) == {p \in 2..Len(lines) : Contains(lines[p], MdExt)}

\* C21 as stated: one suggestion, and no error, for every line after the
\* header that contains '.md' and does not end with '.md', a line on which
\* only whitespace follows the extension included; none for the others.
C21_AsStated ==
    Validated =>
        LET lines == Split(navigation_yaml[1], NL)
            owed == {p \in MdLines(lines) : ~EndsWith(lines[p], MdExt)}
        IN  /\ Len(validation[1].suggestions) = Cardinality(owed)
            /\ \A n \in 1..Len(validation[1].suggestions) :
                  validation[1].suggestions[n] = MdSuggestion
            /\ \A n \in 1..Len(validation[1].errors) :
                  validation[1].errors[n] = HeaderError

\* C21: validate_navigation records one suggestion, and no error, for every
\* line after the header that contains '.md' and, once trimmed, does not end
\* with '.md'; a line that ends with '.md', or on which only whitespace
\* follows the extension, produces no suggestion.
C21_TrimmedExtension ==
    Validated =>
        LET lines == Split(navigation_yaml[1], NL)
            owed == {p \in MdLines(lines) : ~EndsWith(Strip(lines[p]), MdExt)}
        IN  /\ Len(validation[1].suggestions) = Cardinality(owed)
            /\ \A n \in 1..Len(validation[1].suggestions) :
                  validation[1].suggestions[n] = MdSuggestion
            /\ \A n \in 1..Len(validation[1].errors) :
                  validation[1].errors[n] = HeaderError

\* under a passing header, one line with a suffix after '.md' got its
\* suggestion and one with a trailing space after '.md' got none
C21_Witness ==
    /\ Validated
    /\ validation[1].is_valid
    /\ Len(validation[1].suggestions) = 1
    /\ LET lines == Split(navigation_yaml[1], NL)
       IN  \E p, q \in MdLines(lines) :
              /\ ~EndsWith(Strip(lines[p]), MdExt)
              /\ EndsWith(Strip(lines[q]), MdExt)
              /\ ~EndsWith(lines[q], MdExt)


-----------------------------------------------------------------------------
(* C26 *)

\* the largest level among sections, 0 when there are none
LargestLevel(sections) ==
    IF Len(sections) = 0 THEN 0
    ELSE CHOOSE d \in {sections[k].level : k \in 1..Len(sections)} :
             \A k \in 1..Len(sections) : sections[k].level <= d

\* C26: the metadata of an analysis agrees with its section list:
\* total_sections is the number of sections returned and max_depth the
\* largest level among them (0 when there are none), for every input text.
C26_MetadataAgrees ==
    Analysed =>
        /\ structure[1].metadata.total_sections = Len(Sections)
        /\ structure[1].metadata.max_depth = LargestLevel(Sections)


-----------------------------------------------------------------------------
(* C27 *)

\* the manifest emitted from an analysis has been validated
ManifestValidated ==
    Len(doc_content) = 1 /\ Len(structure) = 1 /\ Validated

\* C27: the manifest that generate_mkdocs_navigation produces from the result
\* of analyze_document_structure passes validate_navigation: is_valid is
\* True, there is no error, no indentation warning and no '.md' suggestion,
\* for every input text.
C27_ManifestPasses ==
    ManifestValidated =>
        /\ validation[1].is_valid
        /\ validation[1].errors = <<>>
        /\ \A n \in 1..Len(validation[1].warnings) :
              validation[1].warnings[n].kind # "Inconsistent indentation"
        /\ validation[1].suggestions = <<>>

\* a manifest of two entries, one of them for a title of more than one word,
\* has been validated
C27_Witness ==
    /\ ManifestValidated
    /\ Len(Split(navigation_yaml[1], NL)) >= 3
    /\ \E k \in 1..Len(Sections) :
          /\ Sections[k].level = 1
          /\ HasChar(Sections[k].title, " ")
    /\ validation[1].is_valid


-----------------------------------------------------------------------------
(* C29 *)

\* C29: every section the heading parser returns has a non-empty title, the
\* sections whose heading text is longer than 100 characters and is cut at a
\* '.', '!' or '?' included, for every input text.
C29_TitleNonEmpty ==
    Analysed => \A k \in 1..Len(Sections) : Len(Sections[k].title) > 0


-----------------------------------------------------------------------------
(* C28 *)

\* C28: in the result of get_document_content, stats.used_html_export is
\* true exactly when the returned content was produced from the HTML export
\* by the fallback extractor, and false exactly when the returned content is
\* the structured extraction.
C28_UsedHtmlExport ==
    DocumentReturned =>
        response[1].stats.used_html_export = (step + failed_at > 0)


-----------------------------------------------------------------------------
(* C22, C23 *)

\* this step is a call of commit_markdown_file
CommitCalled ==
    run'.op = "commit_markdown_file" /\ run'.calls = run.calls + 1

\* the calls of the given kind among the calls the service call made
CallsOf(calls, op) == SelectSeq(calls, LAMBDA c : c.op = op)

\* C22: commit_markdown_file is an upsert on (path, branch): a file that
\* exists on the branch is updated with the sha of the revision just read and
\* no create is attempted for it; a create is attempted only for a file that
\* does not exist on the branch; the URL returned names the branch and the
\* path.
C22_Upsert ==
    [][CommitCalled =>
        LET path == with_md(run.file_path)
            sha == ShaOf(repo, run.branch, path)
        IN  /\ sha > 0 =>
                /\ CallsOf(api_calls', "create_file") = <<>>
                /\ \A n \in 1..Len(api_calls') :
                      api_calls'[n].op = "update_file" =>
                          api_calls'[n].sha = sha
            /\ CallsOf(api_calls', "create_file") # <<>> => sha = 0
            /\ run'.pc = "returned" =>
                  run'.outcome.value[1] = blob_url(run.branch, path)]_vars

\* the lines of a mkdocs.yml that are the entry of the call
EntryLines(config) ==
    LET lines == Split(config, NL)
    IN  {n \in 1..Len(lines) :
            Strip(lines[n]) = nav_entry(run.title, nav_path_of(run.file_path))}

\* C23: starting from a mkdocs.yml that has a 'nav:' line and no entry for
\* (title, path), after any number of update_mkdocs_nav calls that returned
\* the file holds exactly one line '  - <title>: <path>' (the path as the
\* navigation names it), and every call after the first left it unchanged.
C23_NoDuplicates ==
    LET start == config_history[1]
        now == config_history[Len(config_history)]
        lines == Split(now, NL)
    IN  (/\ run.op # "none"
         /\ Len(config_history) >= 2
         /\ \E line \in {Split(start, NL)[n] : n \in 1..Len(Split(start, NL))} :
                IsNavHeader(line)
         /\ EntryLines(start) = {})
        => /\ Cardinality({n \in 1..Len(lines) :
                   lines[n] = <<" ", " ">> \o
                       nav_entry(run.title, nav_path_of(run.file_path))}) = 1
           /\ \A i \in 3..Len(config_history) :
                  config_history[i] = config_history[i - 1]


-----------------------------------------------------------------------------
(* C24, C25 *)

\* the place of a step in the order the claim gives
StepRank(at) ==
    CASE at = "fetch" -> 1
      [] at = "analyse" -> 2
      [] at = "convert" -> 3
      [] at = "create_branch" -> 4
      [] at = "commit" -> 5
      [] at = "navigation" -> 6
      [] at = "pull_request" -> 7

\* the step at was taken and returned before the j-th step of the run
SucceededBefore(at, j) ==
    \E i \in 1..(j - 1) : run.trace[i] = [at |-> at, ok |-> TRUE]

PublishSteps == {"create_branch", "commit", "navigation"}

\* C24: in every run of a publish pipeline the steps are taken in the order
\* fetch, convert, create branch, commit main file, update navigation, create
\* pull request; no file is committed before the branch is created (no file
\* is ever on a branch that does not exist); a pull request is created only
\* after branch creation, commit and navigation update have all returned;
\* when one of them raised there is no pull request; /api/convert creates
\* none when create_pr is false.
C24_StepOrder ==
    run.op \in PipelineKinds =>
        /\ \A i, j \in 1..Len(run.trace) :
              i < j => StepRank(run.trace[i].at) < StepRank(run.trace[j].at)
        /\ \A j \in 1..Len(run.trace) :
              run.trace[j].at = "commit" => SucceededBefore("create_branch", j)
        /\ \A k \in DOMAIN repo.files :
              repo.files[k] > 0 => k[1] \in repo.branches
        /\ \A j \in 1..Len(run.trace) :
              run.trace[j].at = "pull_request" =>
                  \A at \in PublishSteps : SucceededBefore(at, j)
        /\ repo.pulls # <<>> =>
              \A at \in PublishSteps :
                  SucceededBefore(at, Len(run.trace) + 1)
        /\ (\E i \in 1..Len(run.trace) :
               run.trace[i].at \in PublishSteps /\ ~run.trace[i].ok)
              => repo.pulls = <<>>
        /\ (run.op = "convert_document" /\ ~run.create_pr) =>
              /\ repo.pulls = <<>>
              /\ \A j \in 1..Len(run.trace) : run.trace[j].at # "pull_request"

\* a run of /api/convert with create_pr has returned after its six steps,
\* the pull request made from the branch it created
C24_Witness ==
    /\ run.op = "convert_document"
    /\ run.pc = "returned"
    /\ run.create_pr
    /\ Len(run.trace) = 6
    /\ repo.pulls = <<[head |-> run.branch, base |-> MainBranch]>>
    /\ ShaOf(repo, run.branch, with_md(file_path_of(run)[1])) > 0

\* C25: when every collaborator call succeeds and the document has a
\* heading, run_documentation_update eventually returns status 'success',
\* exactly one pull request created.
C25_EventuallySucceeds ==
    (run.op = "run_documentation_update" /\ run.headings >= 1) =>
        <>(\/ run.faults > 0
           \/ /\ run.pc = "returned"
              /\ run.outcome.value[1].status = "success"
              /\ Len(repo.pulls) = 1)


-----------------------------------------------------------------------------
(* C30 *)

=============================================================================
